---- MODULE Spec2Model ----
(***************************************************************************)
(* Model of the work order updater (src/wo_updater.py): the quality/MRB    *)
(* classifier in_quality, the batch driver update_data, the concurrent     *)
(* fetch get_all_prod_tables and the yield matcher get_yield; and of the   *)
(* purchase order notifier (src/po_notifier.py): the merge functions and   *)
(* the two report pipelines; and of the main loops of the work order       *)
(* updater and of the yield notifier (src/yield_notifier.py).              *)
(*                                                                         *)
(* A production table is a function on 0..n-1 (Python's list indices).     *)
(* Row 0 is the header row; rows 1..n-1 are the routing steps.  Quantity   *)
(* fields hold the number that locale.atof parses from the field's text.   *)
(***************************************************************************)
EXTENDS Integers, Sequences, FiniteSets, TLC

VARIABLES
    prod_table,   \* in_quality's argument
    pc,           \* "ready" before the call of in_quality, "done" after it
    result,       \* how the call of in_quality ended (verdict or exception)
    wo_list,      \* get_all_prod_tables' argument
    tasks,        \* the tasks of get_all_prod_tables, one per entry of wo_list
    fetch_pc,     \* where get_all_prod_tables is
    gathered,     \* how get_all_prod_tables ended (list or exception)
    prod_tables,  \* update_data: what asyncio.run(get_all_prod_tables(..)) returned
    update_pc,    \* update_data: the statement it is at
    row,          \* update_data: the position of the running for loop in prod_tables
    quality_status_df, \* update_data: the quality rows built so far
    yield_df,     \* update_data: the yield rows built so far
    files,        \* the content of the files at RESULT_PATH, YIELD_PATH, WIP_PATH
    func,         \* a single call: the function that is called
    args,         \* a single call: its arguments and what the servers answer to it
    call_pc,      \* a single call: "ready" before the call, "done" after it
    outcome,      \* a single call: how it ended (returned value or exception)
    now,          \* main: the clock, what datetime.datetime.now() reads (day, hour)
    main_pc,      \* main: the statement the loop is at
    error,        \* wo_updater.main: the error flag
    run_once,     \* yield_notifier.main: the run_once flag
    file_date,    \* the day the file at DATA_PATH was last modified
    started       \* main: the calls of update_data / send_email started so far

varsQ == <<prod_table, pc, result>>
varsF == <<wo_list, tasks, fetch_pc, gathered>>
varsU == <<prod_tables, update_pc, row, quality_status_df, yield_df, files>>
varsC == <<func, args, call_pc, outcome>>
varsM == <<now, main_pc, error, run_once, file_date, started>>
vars == <<varsQ, varsF, varsU, varsC, varsM>>

(***************************************************************************)
(* Bounds of the model.                                                    *)
(***************************************************************************)
MaxSteps == 3     \* routing steps per table (rows 1..n-1)
MaxQty == 2       \* largest completed quantity of a step
MaxLoss == 1      \* largest MRB plus scrap quantity of a step
MaxOrders == 3    \* work orders in one batch fetch
MaxBatch == 2     \* tables in one run of update_data

(***************************************************************************)
(* Text fields.  A text is kept as a string; Chars gives its characters,   *)
(* so that "CMM" in s and s.startswith(p) are computed on the characters.  *)
(***************************************************************************)
Chars(s) ==
    CASE s = "1st Off" -> <<"1", "s", "t", " ", "O", "f", "f">>
      [] s = "Drilling" -> <<"D", "r", "i", "l", "l", "i", "n", "g">>
      [] s = "CMM Inspection" ->
            <<"C", "M", "M", " ", "I", "n", "s", "p", "e", "c", "t", "i", "o", "n">>
      [] s = "Inspection" -> <<"I", "n", "s", "p", "e", "c", "t", "i", "o", "n">>
      [] s = "Final Inspection" ->
            <<"F", "i", "n", "a", "l", " ", "I", "n", "s", "p", "e", "c", "t", "i", "o", "n">>
      [] s = "CMM" -> <<"C", "M", "M">>
      [] s = "DP-100" -> <<"D", "P", "-", "1", "0", "0">>
      [] s = "AS-200" -> <<"A", "S", "-", "2", "0", "0">>
      [] s = "DP" -> <<"D", "P">>
      [] s = "ERROR" -> <<"E", "R", "R", "O", "R">>
      [] s = "WO" -> <<"W", "O">>
      [] s = "WO " -> <<"W", "O", " ">>
      [] s = "WO 1001" -> <<"W", "O", " ", "1", "0", "0", "1">>
      [] s = "WO 1002" -> <<"W", "O", " ", "1", "0", "0", "2">>
      [] s = "Freight" -> <<"F", "r", "e", "i", "g", "h", "t">>
      [] s = "+" -> <<"+">>
      [] s = "+4501" -> <<"+", "4", "5", "0", "1">>
      [] s = "+4502" -> <<"+", "4", "5", "0", "2">>
      [] s = "PROCESSING" -> <<"P", "R", "O", "C", "E", "S", "S", "I", "N", "G">>
      [] s = "MATERIAL" -> <<"M", "A", "T", "E", "R", "I", "A", "L">>
      [] s = "HARDWARE" -> <<"H", "A", "R", "D", "W", "A", "R", "E">>
      [] s = "PROCESSING WH" -> <<"P", "R", "O", "C", "E", "S", "S", "I", "N", "G", " ", "W", "H">>
      [] s = "MATERIAL WH" -> <<"M", "A", "T", "E", "R", "I", "A", "L", " ", "W", "H">>
      [] s = "HARDWARE WH" -> <<"H", "A", "R", "D", "W", "A", "R", "E", " ", "W", "H">>
      [] s = "SHIPPING" -> <<"S", "H", "I", "P", "P", "I", "N", "G">>
      [] s = "PO1" -> <<"P", "O", "1">>
      [] s = "PO2" -> <<"P", "O", "2">>
      [] s = "" -> <<>>

\* Python's  sub in s  on strings
Contains(s, sub) ==
    \E k \in 0..(Len(Chars(s)) - Len(Chars(sub))) :
        SubSeq(Chars(s), k + 1, k + Len(Chars(sub))) = Chars(sub)

\* constants.STARTING_STRINGS: the accepted product prefixes
STARTING_STRINGS == {"DP"}

\* Python's  s.startswith(prefixes)  with a tuple of prefixes
startswith(s, prefixes) ==
    \E p \in prefixes :
        /\ Len(Chars(p)) <= Len(Chars(s))
        /\ SubSeq(Chars(s), 1, Len(Chars(p))) = Chars(p)

Descriptions == {"1st Off", "Drilling", "CMM Inspection", "Inspection", "Final Inspection"}
Products == {"DP-100", "AS-200"}

\* one row of the production center table (the fields in_quality reads)
StepSet ==
    {s \in [artbez : Descriptions, art : Products, ycomplete : 0..MaxQty,
            mrbqty : 0..MaxLoss, rverlust : 0..MaxLoss] :
        s.mrbqty + s.rverlust <= MaxLoss}

HeaderRow ==
    [artbez |-> "Drilling", art |-> "DP-100", ycomplete |-> 0, mrbqty |-> 0, rverlust |-> 0]

\* the table with header row 0 and the routing steps s[1], ..., s[n]
Table(s) == [i \in 0..Len(s) |-> IF i = 0 THEN HeaderRow ELSE s[i]]

\* Python's len(prod_table)
len(t) == Cardinality(DOMAIN t)

(***************************************************************************)
(* Python values.  qty is the str "N/A" until a float is assigned to it.   *)
(***************************************************************************)
Str(s) == [str |-> s]
Num(x) == [num |-> x]

\* a lookup that raises instead of returning
Raises == "<exception>"
NotBound == "<unbound local>"

\* what get_cc_date and get_mrb_date answer during one call of in_quality
ResponseSet == [cc : {Raises, "03/14/24"}, mrb : {Raises, "03/15/24 10:22:00"}]

(***************************************************************************)
(* in_quality.  The locals are a record; raised names the exception that   *)
(* left the function, lookups lists the confirmation lookups issued (the   *)
(* function, the step whose work slip was asked for, and the answer),      *)
(* visited the values i has taken.                                         *)
(***************************************************************************)
InitLocals ==
    [in_qual |-> FALSE, qty |-> Str("N/A"), date |-> "N/A", progress |-> "N/A",
     tentative |-> FALSE, qual_found |-> FALSE, mrb |-> FALSE, mrb_qty |-> 0,
     mrb_date |-> "N/A", prod_description |-> NotBound,
     raised |-> "none", lookups |-> <<>>, visited |-> {}]

\* IsInspection with a seeded fault: any description with "Inspection" in it
IsInspection_Substring(description) == Contains(description, "Inspection")

\* line 259
IsInspection(description) == description = "Inspection" \/ description = "Final Inspection"

\* Considered with a seeded fault: the product prefix is not checked
Considered_AnyProduct(prod_description, product) ==
    /\ prod_description # "1st Off"
    /\ ~Contains(prod_description, "CMM")

\* lines 278-279: the filter of the backward scan, on row j's own fields
Considered(prod_description, product) ==
    /\ prod_description # "1st Off"
    /\ ~Contains(prod_description, "CMM")
    /\ startswith(product, STARTING_STRINGS)

\* lines 270-291: the while loop from j down to 1
RECURSIVE BackwardScan(_, _, _, _, _, _)
BackwardScan(t, r, i, j, curr_sum, s) ==
    IF j < 1 THEN s
    ELSE
        LET this_yield == t[j].ycomplete
            s1 == [s EXCEPT !.prod_description = t[j].artbez]
        IN  IF Considered(t[j].artbez, t[j].art)
            THEN IF this_yield <= curr_sum
                 THEN s1                                   \* break
                 ELSE
                    LET s2 == [s1 EXCEPT !.qty = Num(this_yield - curr_sum),
                                         !.progress = ToString(i) \o "/" \o ToString(len(t) - 1),
                                         !.in_qual = TRUE,
                                         !.qual_found = TRUE,
                                         !.lookups = Append(@, <<"get_cc_date", i, r.cc>>)]
                    IN  IF r.cc = Raises
                        THEN [s2 EXCEPT !.raised = "get_cc_date"]
                        ELSE BackwardScan(t, r, i, j - 1, curr_sum, [s2 EXCEPT !.date = r.cc])
            ELSE BackwardScan(t, r, i, j - 1, curr_sum, s1)

\* lines 296-307: the while loop from j up to len(prod_table) - 1
RECURSIVE ForwardScan(_, _, _, _)
ForwardScan(t, j, curr_yield, s) ==
    IF j >= len(t) THEN s
    ELSE
        LET this_yield == t[j].ycomplete
        IN  IF t[j].artbez # "1st Off"
            THEN IF s.prod_description = NotBound
                 THEN [s EXCEPT !.raised = "UnboundLocalError"]
                 ELSE IF /\ ~Contains(s.prod_description, "CMM")
                         /\ startswith(t[j].art, STARTING_STRINGS)
                         /\ this_yield > curr_yield
                      THEN [s EXCEPT !.tentative = TRUE]   \* break
                      ELSE ForwardScan(t, j + 1, curr_yield, s)
            ELSE ForwardScan(t, j + 1, curr_yield, s)

RECURSIVE MainLoop(_, _, _, _)

\* MrbBranch with a seeded fault: get_mrb_date is called outside a try block
MrbBranch_NoTry(t, r, i, s) ==
    LET s1 == [s EXCEPT !.mrb = TRUE,
                        !.mrb_qty = @ + t[i].mrbqty,
                        !.lookups = Append(@, <<"get_mrb_date", i, r.mrb>>)]
    IN  IF r.mrb = Raises
        THEN [s1 EXCEPT !.raised = "get_mrb_date"]
        ELSE [s1 EXCEPT !.mrb_date = r.mrb]

\* lines 246-254: the MRB flag, quantity and date of step i
MrbBranch(t, r, i, s) ==
    [s EXCEPT !.mrb = TRUE,
              !.mrb_qty = @ + t[i].mrbqty,
              !.lookups = Append(@, <<"get_mrb_date", i, r.mrb>>),
              !.mrb_date = IF r.mrb = Raises THEN "No Date" ELSE r.mrb]

\* BreakAtMrb with a seeded fault: the loop goes on with the next step
ContinueAtMrb(t, r, i, s) == MainLoop(t, r, i + 1, s)

\* line 255: break, the for loop ends with the locals as they are
BreakAtMrb(t, r, i, s) == s

\* lines 240-307: the for loop over i
MainLoop(t, r, i, s0) ==
    IF i >= len(t) THEN s0
    ELSE
        LET s == [s0 EXCEPT !.visited = @ \cup {i}]
            description == t[i].artbez
        IN  IF t[i].mrbqty > 0
            THEN BreakAtMrb(t, r, i, MrbBranch(t, r, i, s))
            ELSE IF IsInspection(description) /\ ~s.qual_found
            THEN
                LET curr_yield == t[i].ycomplete
                    curr_sum == t[i].ycomplete + t[i].mrbqty + t[i].rverlust
                    sB == BackwardScan(t, r, i, i - 1, curr_sum, s)
                    sF == IF sB.in_qual \/ curr_yield = 0
                          THEN ForwardScan(t, i + 1, curr_yield, sB)
                          ELSE sB
                IN  IF sB.raised # "none" THEN sB
                    ELSE IF sF.raised # "none" THEN sF
                    ELSE MainLoop(t, r, i + 1, sF)
            ELSE MainLoop(t, r, i + 1, s)

\* qual_status with a seeded fault: the tentative flag alone gives status 1
qual_status_TentativeAlone(s) ==
    IF s.tentative THEN 1
    ELSE IF s.in_qual THEN 2
    ELSE 0

\* lines 309-314
qual_status(s) ==
    IF s.tentative /\ s.in_qual THEN 1
    ELSE IF s.in_qual THEN 2
    ELSE 0

\* lines 218-315: the call as a whole; returned is the tuple of line 315
in_quality(t, r) ==
    LET s == MainLoop(t, r, 1, InitLocals)
    IN  IF s.raised # "none"
        THEN [raised |-> s.raised, returned |-> <<>>, locals |-> s]
        ELSE [raised |-> "none",
              returned |-> <<qual_status(s), s.qty, s.date, s.progress,
                             s.mrb, s.mrb_qty, s.mrb_date>>,
              locals |-> s]

NoResult == [raised |-> "none", returned |-> <<>>, locals |-> InitLocals]

(***************************************************************************)
(* Specification: in_quality is called once on a table.                    *)
(***************************************************************************)
PreviousRun == [result |-> "previous run", yield |-> "previous run", wip |-> "previous run"]

IdleC ==
    /\ func = "none"
    /\ args = <<>>
    /\ call_pc = "idle"
    /\ outcome = <<>>

IdleM ==
    /\ now = [day |-> 0, hour |-> 0]
    /\ main_pc = "idle"
    /\ error = FALSE
    /\ run_once = FALSE
    /\ file_date = 0
    /\ started = <<>>

IdleU ==
    /\ prod_tables = <<>>
    /\ update_pc = "idle"
    /\ row = 0
    /\ quality_status_df = <<>>
    /\ yield_df = <<>>
    /\ files = PreviousRun

IdleF ==
    /\ wo_list = <<>>
    /\ tasks = <<>>
    /\ fetch_pc = "idle"
    /\ gathered = [raised |-> FALSE, value |-> <<>>]

Init ==
    /\ \E n \in 1..MaxSteps : \E s \in [1..n -> StepSet] : prod_table = Table(s)
    /\ pc = "ready"
    /\ result = NoResult
    /\ IdleF
    /\ IdleU
    /\ IdleC
    /\ IdleM

Classify ==
    /\ pc = "ready"
    /\ \E r \in ResponseSet : result' = in_quality(prod_table, r)
    /\ pc' = "done"
    /\ UNCHANGED <<prod_table, varsF, varsU, varsC, varsM>>

Next == Classify

Spec == Init /\ [][Next]_vars

(***************************************************************************)
(* get_all_prod_tables and get_wo_response.  A task is "created" until its *)
(* request gets a connection of the session, "posted" while the request is *)
(* in flight, and then "done" (its table) or "failed" (its exception).     *)
(***************************************************************************)
\* constants.CONNECTION_LIMIT, the limit of the session's TCPConnector
CONNECTION_LIMIT == 2

WorkOrders == 1..MaxOrders

\* lists of distinct work order numbers
WoLists ==
    UNION {{l \in [1..n -> WorkOrders] : \A a, b \in 1..n : a # b => l[a] # l[b]} :
            n \in 0..MaxOrders}

\* the table the production center answers for a work order (row 0 names it)
TableOf(wo_num) == [order |-> wo_num]
FetchError == [exception |-> "ClientError"]

InFlight == {k \in 1..Len(tasks) : tasks[k].state = "posted"}
Finished == {k \in 1..Len(tasks) : tasks[k].state \in {"done", "failed"}}

\* gather with a seeded fault: without return_exceptions an exception is raised
gather_Propagating(ts) ==
    IF \E k \in 1..Len(ts) : ts[k].state = "failed"
    THEN [raised |-> TRUE, value |-> <<>>]
    ELSE [raised |-> FALSE, value |-> [k \in 1..Len(ts) |-> ts[k].outcome]]

\* line 120: asyncio.gather(*tasks, return_exceptions=True) on finished tasks
gather(ts) == [raised |-> FALSE, value |-> [k \in 1..Len(ts) |-> ts[k].outcome]]

IdleQ ==
    /\ prod_table = Table(<<>>)
    /\ pc = "idle"
    /\ result = NoResult

InitFetch ==
    /\ wo_list \in WoLists
    /\ tasks = <<>>
    /\ fetch_pc = "start"
    /\ gathered = [raised |-> FALSE, value |-> <<>>]
    /\ IdleQ
    /\ IdleU
    /\ IdleC
    /\ IdleM

\* lines 113-117: one task per work order number, in the order of wo_list
CreateTasks ==
    /\ fetch_pc = "start"
    /\ tasks' = [k \in 1..Len(wo_list) |->
                    [wo_num |-> wo_list[k], state |-> "created", posts |-> 0,
                     outcome |-> FetchError]]
    /\ fetch_pc' = "gather"
    /\ UNCHANGED <<wo_list, gathered, varsQ, varsU, varsC, varsM>>

\* SendRequest with a seeded fault: the connector hands out connections without limit
SendRequest_Unlimited(k) ==
    /\ fetch_pc = "gather"
    /\ tasks[k].state = "created"
    /\ tasks' = [tasks EXCEPT ![k].state = "posted", ![k].posts = @ + 1]
    /\ UNCHANGED <<wo_list, fetch_pc, gathered, varsQ, varsU, varsC, varsM>>

\* lines 92-93: the task's request is sent once the connector has a free connection
SendRequest(k) ==
    /\ fetch_pc = "gather"
    /\ tasks[k].state = "created"
    /\ Cardinality(InFlight) < CONNECTION_LIMIT
    /\ tasks' = [tasks EXCEPT ![k].state = "posted", ![k].posts = @ + 1]
    /\ UNCHANGED <<wo_list, fetch_pc, gathered, varsQ, varsU, varsC, varsM>>

\* lines 94-97: the response arrives and the task returns its table
ReceiveResponse(k) ==
    /\ fetch_pc = "gather"
    /\ tasks[k].state = "posted"
    /\ tasks' = [tasks EXCEPT ![k].state = "done", ![k].outcome = TableOf(tasks[k].wo_num)]
    /\ UNCHANGED <<wo_list, fetch_pc, gathered, varsQ, varsU, varsC, varsM>>

\* lines 92-97: the request or the decoding of its response raises
RequestFails(k) ==
    /\ fetch_pc = "gather"
    /\ tasks[k].state = "posted"
    /\ tasks' = [tasks EXCEPT ![k].state = "failed", ![k].outcome = FetchError]
    /\ UNCHANGED <<wo_list, fetch_pc, gathered, varsQ, varsU, varsC, varsM>>

\* line 120: gather returns when every task has finished
Gather ==
    /\ fetch_pc = "gather"
    /\ Finished = 1..Len(tasks)
    /\ gathered' = gather(tasks)
    /\ fetch_pc' = "returned"
    /\ UNCHANGED <<wo_list, tasks, varsQ, varsU, varsC, varsM>>

NextFetch ==
    \/ CreateTasks
    \/ \E k \in 1..Len(tasks) : SendRequest(k)
    \/ \E k \in 1..Len(tasks) : ReceiveResponse(k)
    \/ \E k \in 1..Len(tasks) : RequestFails(k)
    \/ Gather

SpecFetch == InitFetch /\ [][NextFetch]_vars

\* The fetch as the event loop and the network run it: the loop runs every
\* task that is ready (lines 116, 120); the connector hands a released
\* connection to the request that has waited longest, so no waiting request
\* is passed over for ever; a request in flight ends, with a response or
\* with an error of the connection.
SpecFetchFair ==
    /\ InitFetch
    /\ [][NextFetch]_vars
    /\ WF_vars(CreateTasks)
    /\ \A k \in 1..MaxOrders : SF_vars(k <= Len(tasks) /\ SendRequest(k))
    /\ \A k \in 1..MaxOrders :
          WF_vars(k <= Len(tasks) /\ (ReceiveResponse(k) \/ RequestFails(k)))
    /\ WF_vars(Gather)

(***************************************************************************)
(* get_yielded_date and get_yield.  A history is what the work order       *)
(* database answers for a work slip: raises, or the get_yield_data tuples  *)
(* (total_qty, latest_date, timestamp) of its filed confirmations, oldest  *)
(* first.                                                                  *)
(***************************************************************************)
\* lines 360-369: the for loop from the newest confirmation to the oldest
RECURSIVE YieldedScan(_, _, _, _, _, _)
YieldedScan(records, i, total_qty, latest_date, timestamp, sum_qty) ==
    IF i < 1 THEN <<"ERROR", "N/A">>
    ELSE
        LET yield_tuple == records[i]
            total == total_qty + yield_tuple[1]
            first == latest_date = "" /\ yield_tuple[1] # 0
            date1 == IF first THEN yield_tuple[2] ELSE latest_date
            time1 == IF first THEN yield_tuple[3] ELSE timestamp
        IN  IF total = sum_qty
            THEN <<date1, time1>>
            ELSE YieldedScan(records, i - 1, total, date1, time1, sum_qty)

\* get_yielded_date with a seeded fault: the running total stops at the newest record
get_yielded_date_NewestOnly(work_slip, sum_qty, history) ==
    IF work_slip = ""
    THEN [raised |-> "none", returned |-> Chars("ERROR")]
    ELSE IF history.raises
    THEN [raised |-> "requests", returned |-> <<>>]
    ELSE [raised |-> "none",
          returned |-> YieldedScan(history.records, Len(history.records), 0, "", "",
                                   IF Len(history.records) > 1
                                   THEN history.records[Len(history.records)][1]
                                   ELSE sum_qty)]

\* lines 339-369; the str "ERROR" is returned as its characters
get_yielded_date(work_slip, sum_qty, history) ==
    IF work_slip = ""
    THEN [raised |-> "none", returned |-> Chars("ERROR")]
    ELSE IF history.raises
    THEN [raised |-> "requests", returned |-> <<>>]
    ELSE [raised |-> "none",
          returned |-> YieldedScan(history.records, Len(history.records), 0, "", "", sum_qty)]

NoYield == <<FALSE, "N/A", "N/A", "N/A", "N/A", "N/A">>

\* lines 393-406: the step i with nothing left to release; lookups lists the
\* calls of get_yielded_date, each with its work slip and its sum_qty
YieldAt(t, i, date, history) ==
    LET work_slip == t[i].order
        row_sum == t[i].ycomplete + t[i].mrbqty + t[i].rverlust
        yielded == get_yielded_date(work_slip, row_sum, history)
        yield_tuple == yielded.returned
        lookups == << <<work_slip, row_sum>> >>
    IN  IF yielded.raised # "none"
        THEN [raised |-> yielded.raised, returned |-> <<>>, lookups |-> lookups]
        ELSE IF yield_tuple[1] = date
        THEN
            IF i = len(t) - 1
            THEN [raised |-> "none",
                  returned |-> <<TRUE, work_slip, t[i].artbez, t[i].ycomplete,
                                 "None", yield_tuple[2]>>,
                  lookups |-> lookups]
            ELSE IF t[i + 1].artbez = "1st Off"
            THEN IF i + 2 >= len(t)
                 THEN [raised |-> "IndexError", returned |-> <<>>, lookups |-> lookups]
                 ELSE [raised |-> "none",
                       returned |-> <<TRUE, work_slip, t[i].artbez, t[i].ycomplete,
                                      t[i + 2].artbez, yield_tuple[2]>>,
                       lookups |-> lookups]
            ELSE [raised |-> "none",
                  returned |-> <<TRUE, work_slip, t[i].artbez, t[i].ycomplete,
                                 t[i + 1].artbez, yield_tuple[2]>>,
                  lookups |-> lookups]
        ELSE [raised |-> "none", returned |-> NoYield, lookups |-> lookups]

\* lines 384-407: the for loop from the last step down to step 1
RECURSIVE YieldLoop(_, _, _, _)
YieldLoop(t, i, date, history) ==
    IF i < 1 THEN [raised |-> "none", returned |-> NoYield, lookups |-> <<>>]
    ELSE IF t[i].frgmge <= 0 THEN YieldAt(t, i, date, history)
    ELSE YieldLoop(t, i - 1, date, history)

\* get_yield with a seeded fault: the last step is taken whatever is left to release
get_yield_LastStepAlways(t, date, history) ==
    IF len(t) - 1 < 1 THEN [raised |-> "none", returned |-> NoYield, lookups |-> <<>>]
    ELSE YieldAt(t, len(t) - 1, date, history)

\* lines 372-407
get_yield(t, date, history) == YieldLoop(t, len(t) - 1, date, history)

(***************************************************************************)
(* update_data on the list that the batch fetch returned: a table for a    *)
(* work order that was fetched, the exception for one that was not.        *)
(***************************************************************************)
\* line 515: yesterday's date, "%m/%d/%y"
start_date == "11/04/26"
\* line 463
timestamp == "2026-11-05 04:00"

Row(order, artbez, frgmge, ycomplete, mrbqty, rverlust) ==
    [order |-> order, art |-> "DP-100", artbez |-> artbez, frgmge |-> frgmge,
     ycomplete |-> ycomplete, mrbqty |-> mrbqty, rverlust |-> rverlust]

\* the routing steps of the tables the batches are made of
SampleSteps ==
    { <<Row("510021", "Drilling", 0, 2, 0, 0), Row("510022", "Inspection", 1, 1, 0, 0)>>,
      <<Row("510031", "Drilling", 0, 1, 0, 0)>>,
      <<Row("510041", "Drilling", 1, 2, 1, 0)>> }

\* the table of a work order: row 0 carries the work order's own fields
OrderTable(wo_num, steps) ==
    [i \in 0..Len(steps) |->
        IF i = 0 THEN Row(wo_num, "Bracket", 0, 0, 0, 0) ELSE steps[i]]

\* the entries of the list for the work order at position k
EntriesAt(k) == {FetchError} \cup {[table |-> OrderTable(k, st)] : st \in SampleSteps}

HistorySet ==
    { [raises |-> TRUE, records |-> <<>>],
      [raises |-> FALSE, records |-> <<>>],
      [raises |-> FALSE, records |-> << <<1, start_date, "10:22">> >>],
      [raises |-> FALSE, records |-> << <<1, "11/03/26", "09:15">>, <<1, start_date, "10:22">> >>] }

IsException(entry) == "exception" \in DOMAIN entry

InitUpdate ==
    /\ \E n \in 1..MaxBatch :
          \E b \in [1..n -> UNION {EntriesAt(k) : k \in 1..n}] :
              /\ \A k \in 1..n : b[k] \in EntriesAt(k)
              /\ prod_tables = b
    /\ update_pc = "quality"
    /\ row = 1
    /\ quality_status_df = <<>>
    /\ yield_df = <<>>
    /\ files = PreviousRun
    /\ IdleQ
    /\ IdleF
    /\ IdleC
    /\ IdleM

\* line 473 with an exception object as argument: len() raises TypeError
QualityOf(entry, r) ==
    IF IsException(entry)
    THEN [raised |-> "TypeError", returned |-> <<>>]
    ELSE in_quality(entry.table, r)

\* lines 472-496: one iteration of the quality loop
QualityRow ==
    /\ update_pc = "quality"
    /\ row <= Len(prod_tables)
    /\ \E r \in ResponseSet :
          LET quality == QualityOf(prod_tables[row], r)
              quality_tuple == quality.returned
              table == prod_tables[row].table
          IN  IF quality.raised # "none"
              THEN /\ update_pc' = "raised"
                   /\ UNCHANGED <<row, quality_status_df>>
              ELSE /\ quality_status_df' =
                        Append(quality_status_df,
                               <<table[0].order, quality_tuple[1], table[0].art,
                                 table[0].artbez, quality_tuple[2], quality_tuple[3],
                                 quality_tuple[4], quality_tuple[5], quality_tuple[6],
                                 quality_tuple[7], timestamp>>)
                   /\ row' = row + 1
                   /\ UNCHANGED update_pc
    /\ UNCHANGED <<prod_tables, yield_df, files, varsQ, varsF, varsC, varsM>>

\* line 498: the quality rows are saved after the loop
WriteQuality ==
    /\ update_pc = "quality"
    /\ row > Len(prod_tables)
    /\ files' = [files EXCEPT !.result = quality_status_df]
    /\ update_pc' = "yield"
    /\ row' = 1
    /\ UNCHANGED <<prod_tables, quality_status_df, yield_df, varsQ, varsF, varsC, varsM>>

\* line 520 with an exception object as argument: len() raises TypeError
YieldOf(entry, history) ==
    IF IsException(entry)
    THEN [raised |-> "TypeError", returned |-> <<>>]
    ELSE get_yield(entry.table, start_date, history)

\* lines 519-538: one iteration of the yield loop
YieldRow ==
    /\ update_pc = "yield"
    /\ row <= Len(prod_tables)
    /\ \E history \in HistorySet :
          LET yielded == YieldOf(prod_tables[row], history)
              yield_tuple == yielded.returned
              table == prod_tables[row].table
          IN  IF yielded.raised # "none"
              THEN /\ update_pc' = "raised"
                   /\ UNCHANGED <<row, yield_df>>
              ELSE /\ yield_df' =
                        IF yield_tuple[1]
                        THEN Append(yield_df,
                                    <<yield_tuple[3], yield_tuple[2], table[0].artbez,
                                      table[0].art, yield_tuple[4], yield_tuple[5],
                                      yield_tuple[6]>>)
                        ELSE yield_df
                   /\ row' = row + 1
                   /\ UNCHANGED update_pc
    /\ UNCHANGED <<prod_tables, quality_status_df, files, varsQ, varsF, varsC, varsM>>

\* line 540: the yield rows are saved after the loop
WriteYield ==
    /\ update_pc = "yield"
    /\ row > Len(prod_tables)
    /\ files' = [files EXCEPT !.yield = yield_df]
    /\ update_pc' = "wip"
    /\ UNCHANGED <<prod_tables, row, quality_status_df, yield_df, varsQ, varsF, varsC, varsM>>

\* lines 545-599: the WIP file is written unless get_wip_data raises for a
\* table; the exception is caught and update_data completes either way
UpdateWip ==
    /\ update_pc = "wip"
    /\ \E customer_lookup_raises \in BOOLEAN :
          files' = IF customer_lookup_raises
                      \/ \E k \in 1..Len(prod_tables) : IsException(prod_tables[k])
                   THEN files
                   ELSE [files EXCEPT !.wip =
                            [k \in 1..Len(prod_tables) |-> prod_tables[k].table[0].order]]
    /\ update_pc' = "completed"
    /\ UNCHANGED <<prod_tables, row, quality_status_df, yield_df, varsQ, varsF, varsC, varsM>>

NextUpdate ==
    \/ QualityRow
    \/ WriteQuality
    \/ YieldRow
    \/ WriteYield
    \/ UpdateWip

SpecUpdate == InitUpdate /\ [][NextUpdate]_vars

(***************************************************************************)
(* Vocabulary of the properties, stated on the table alone.                *)
(***************************************************************************)
n_rows == len(prod_table)
Steps == 1..(n_rows - 1)

InspectionStep(i) == prod_table[i].artbez \in {"Inspection", "Final Inspection"}

\* a step the scans must not compare with: first off, CMM, other product family
SkippedStep(j) ==
    \/ prod_table[j].artbez = "1st Off"
    \/ prod_table[j].artbez \in {"CMM", "CMM Inspection"}
    \/ prod_table[j].art \notin {"DP-100"}

Max(S) == CHOOSE x \in S : \A y \in S : y <= x
Min(S) == CHOOSE x \in S : \A y \in S : x <= y

\* the nearest step before i that is not skipped, 0 when there is none
Nearest(i) ==
    LET real == {j \in 1..(i - 1) : ~SkippedStep(j)}
    IN  IF real = {} THEN 0 ELSE Max(real)

CurrSum(i) == prod_table[i].ycomplete + prod_table[i].mrbqty + prod_table[i].rverlust

\* the surplus of the nearest real step over what step i accounts for
QualityAt(i) == Nearest(i) # 0 /\ prod_table[Nearest(i)].ycomplete > CurrSum(i)

\* the lowest step with MRB quantity, 0 when there is none
FirstMrb ==
    LET flagged == {i \in Steps : prod_table[i].mrbqty > 0}
    IN  IF flagged = {} THEN 0 ELSE Min(flagged)

ProgressText(i) == ToString(i) \o "/" \o ToString(n_rows - 1)

\* the step the verdict's progress names, 0 when quality was not found
FoundAt ==
    LET at == {i \in Steps : result.locals.progress = ProgressText(i)}
    IN  IF result.locals.qual_found /\ at # {} THEN Min(at) ELSE 0

Returned == pc = "done" /\ result.raised = "none"

LookupRaised(fn) ==
    \E k \in 1..Len(result.locals.lookups) :
        result.locals.lookups[k][1] = fn /\ result.locals.lookups[k][3] = Raises

(***************************************************************************)
(* C1: when quality is found at inspection step i, the reported quantity   *)
(* is completed(j) - curr_sum for the nearest non-skipped step j before i; *)
(* steps further back never change it.                                     *)
(***************************************************************************)
C1_QuantityFromNearestStep ==
    (Returned /\ FoundAt # 0) =>
        result.returned[2] =
            Num(prod_table[Nearest(FoundAt)].ycomplete - CurrSum(FoundAt))

(***************************************************************************)
(* C2: for an inspection step i that in_quality evaluates (no quality      *)
(* found earlier, no MRB at or before i), quality is found at i iff the    *)
(* nearest non-skipped step before i has completed > curr_sum; otherwise   *)
(* (completed <= curr_sum, or every earlier step skipped) step i gives no  *)
(* verdict.                                                                *)
(***************************************************************************)
C2_FoundIffNearestExceeds ==
    pc = "done" =>
        \A i \in result.locals.visited :
            (/\ InspectionStep(i)
             /\ prod_table[i].mrbqty = 0
             /\ FoundAt \notin 1..(i - 1))
            => ((FoundAt = i) <=> QualityAt(i))

\* quality found at a step whose direct predecessor is skipped
C2_Witness ==
    /\ Returned
    /\ FoundAt # 0
    /\ Nearest(FoundAt) < FoundAt - 1

(***************************************************************************)
(* C3: the forward scan from inspection step i ignores step j exactly when *)
(* step j itself is "1st Off", has "CMM" in its description or has no      *)
(* accepted prefix; tentative is set iff some step j that is not ignored   *)
(* has completed(j) > completed(i).                                        *)
(***************************************************************************)
\* the inspection steps whose forward scan runs
ForwardScanned ==
    {i \in result.locals.visited :
        /\ InspectionStep(i)
        /\ prod_table[i].mrbqty = 0
        /\ FoundAt \notin 1..(i - 1)
        /\ (FoundAt = i \/ prod_table[i].ycomplete = 0)}

C3_ForwardScanFiltersCurrentStep ==
    Returned =>
        (result.locals.tentative <=>
            \E i \in ForwardScanned : \E j \in (i + 1)..(n_rows - 1) :
                ~SkippedStep(j) /\ prod_table[j].ycomplete > prod_table[i].ycomplete)

(***************************************************************************)
(* C4: with m the lowest step with mrb_qty > 0, the pass stops at m: no    *)
(* step after m is evaluated, the verdict has has_mrb true and             *)
(* mrb_quantity = mrb_qty(m), and the status is NOT_IN_QUALITY when no     *)
(* inspection step precedes m.                                             *)
(***************************************************************************)
C4_PassStopsAtFirstMrb ==
    (pc = "done" /\ FirstMrb # 0) =>
        /\ result.locals.visited \subseteq 1..FirstMrb
        /\ result.raised = "none" =>
            /\ result.returned[5] = TRUE
            /\ result.returned[6] = prod_table[FirstMrb].mrbqty
            /\ (\A i \in 1..(FirstMrb - 1) : ~InspectionStep(i)) => result.returned[1] = 0

\* an MRB step followed by an inspection step that would have been in quality
C4_Witness ==
    /\ Returned
    /\ FirstMrb # 0
    /\ \A i \in 1..(FirstMrb - 1) : ~InspectionStep(i)
    /\ \E i \in (FirstMrb + 1)..(n_rows - 1) : InspectionStep(i) /\ QualityAt(i)
    /\ result.returned[5] = TRUE

(***************************************************************************)
(* C5: a table with no MRB quantity and no inspection step is classified   *)
(* NOT_IN_QUALITY (0), no MRB, MRB quantity 0, quantity, date and progress *)
(* "N/A", and no confirmation lookup is issued.                            *)
(***************************************************************************)
NoMrbNoInspection == \A i \in Steps : prod_table[i].mrbqty = 0 /\ ~InspectionStep(i)

C5_PlainTableNotInQuality ==
    (pc = "done" /\ NoMrbNoInspection) =>
        /\ result.raised = "none"
        /\ result.returned = <<0, Str("N/A"), "N/A", "N/A", FALSE, 0, "N/A">>
        /\ result.locals.lookups = <<>>

\* such a table with a CMM inspection after a step that completed more
C5_Witness ==
    /\ Returned
    /\ NoMrbNoInspection
    /\ \E i \in Steps : prod_table[i].artbez = "CMM Inspection" /\ QualityAt(i)

(***************************************************************************)
(* C6: in every verdict the status is 1 iff quality was found and the      *)
(* tentative flag is set, 2 iff found and not tentative, 0 otherwise;      *)
(* quantity and progress differ from "N/A" exactly when the status is not  *)
(* 0, and then quantity > 0 and progress is "i/(n-1)" for the inspection   *)
(* step i where quality was found.                                         *)
(***************************************************************************)
C6_StatusAndFieldsAgree ==
    Returned =>
        LET status == result.returned[1]
            qty == result.returned[2]
            progress == result.returned[4]
            found == result.locals.qual_found
        IN  /\ status \in {0, 1, 2}
            /\ (status = 1) <=> (found /\ result.locals.tentative)
            /\ (status = 2) <=> (found /\ ~result.locals.tentative)
            /\ (qty # Str("N/A")) <=> (status # 0)
            /\ (progress # "N/A") <=> (status # 0)
            /\ status # 0 =>
                /\ qty.num > 0
                /\ \E i \in Steps :
                      InspectionStep(i) /\ QualityAt(i) /\ progress = ProgressText(i)

\* a tentative verdict: quality found at a step and a later step ahead of it
C6_Witness ==
    /\ Returned
    /\ result.returned[1] = 1
    /\ result.returned[2] = Num(MaxQty)

(***************************************************************************)
(* C7: if get_cc_date raises while in_quality classifies a table,          *)
(* in_quality still returns a verdict, with the entry date a sentinel.     *)
(***************************************************************************)
C7_CcLookupFailsSoft ==
    (pc = "done" /\ LookupRaised("get_cc_date")) =>
        /\ result.raised = "none"
        /\ result.returned[3] \in {"No Date", "No Completion Confirmation"}

(***************************************************************************)
(* C8: if get_mrb_date raises at the step with mrb_qty > 0, in_quality     *)
(* returns a verdict with has_mrb true, mrb_quantity of that step,         *)
(* mrb_date "No Date", and the quality fields it computed before that      *)
(* step (the same as when the lookup answers).                             *)
(***************************************************************************)
AnsweringResponses == [cc |-> "03/14/24", mrb |-> "03/15/24 10:22:00"]

C8_MrbLookupFailsSoft ==
    (pc = "done" /\ LookupRaised("get_mrb_date")) =>
        /\ result.raised = "none"
        /\ result.returned[5] = TRUE
        /\ result.returned[6] = prod_table[FirstMrb].mrbqty
        /\ result.returned[7] = "No Date"
        /\ \A k \in 1..4 :
              result.returned[k] = in_quality(prod_table, AnsweringResponses).returned[k]

\* the MRB lookup raised after quality had been found at an earlier step
C8_Witness ==
    /\ pc = "done"
    /\ LookupRaised("get_mrb_date")
    /\ result.locals.qual_found

(***************************************************************************)
(* C10: get_all_prod_tables issues one request per work order id and       *)
(* returns, after all requests have finished, a list with exactly one      *)
(* entry per id in the order of wo_list; a failed request gives an error   *)
(* entry at its position, cancels no other request and does not make the   *)
(* batch fetch raise.                                                      *)
(***************************************************************************)
C10_OneEntryPerOrderInOrder ==
    /\ \A k \in 1..Len(tasks) : tasks[k].wo_num = wo_list[k] /\ tasks[k].posts <= 1
    /\ fetch_pc = "returned" =>
        /\ ~gathered.raised
        /\ Len(tasks) = Len(wo_list)
        /\ Len(gathered.value) = Len(wo_list)
        /\ \A k \in 1..Len(wo_list) :
              /\ tasks[k].posts = 1
              /\ tasks[k].state \in {"done", "failed"}
              /\ tasks[k].state = "done" => gathered.value[k] = TableOf(wo_list[k])
              /\ tasks[k].state = "failed" => gathered.value[k] = FetchError

\* a returned batch in which a request failed and a later one succeeded
C10_Witness ==
    /\ fetch_pc = "returned"
    /\ \E a, b \in 1..Len(wo_list) :
          /\ a < b
          /\ gathered.value[a] = FetchError
          /\ gathered.value[b] = TableOf(wo_list[b])
          /\ wo_list[b] < wo_list[a]

(***************************************************************************)
(* C9: in update_data, when the fetch of one work order's table failed or  *)
(* in_quality/get_yield raises for one table, the quality rows and yield   *)
(* rows of all other work orders of the batch are still produced and       *)
(* written to the output files in that run.                                *)
(***************************************************************************)
UpdateEnded == update_pc \in {"completed", "raised"}

\* the work orders of the batch whose table was fetched
FetchedOrders ==
    {prod_tables[k].table[0].order :
        k \in {x \in 1..Len(prod_tables) : ~IsException(prod_tables[x])}}

C9_OtherOrdersStillWritten ==
    (/\ UpdateEnded
     /\ \E k \in 1..Len(prod_tables) : IsException(prod_tables[k])
     /\ FetchedOrders # {}) =>
        /\ files.result # PreviousRun.result
        /\ files.yield # PreviousRun.yield
        /\ \A wo_num \in FetchedOrders :
              \E k \in 1..Len(files.result) : files.result[k][1] = wo_num

(***************************************************************************)
(* Specification: one call of get_yield, of get_yielded_date or of         *)
(* get_next_process, on arguments and server answers drawn from bounded    *)
(* sets.                                                                   *)
(***************************************************************************)
MaxRecords == 3

\* the dates a call is made for and a confirmation is filed on
Dates == {start_date, "11/03/26"}

\* the work slip of routing step i
WorkSlip(i) == "51002" \o ToString(i)

YieldStepSet ==
    { st \in [artbez : {"Drilling", "1st Off"}, frgmge : 0..1, ycomplete : 0..MaxQty,
              mrbqty : 0..MaxLoss, rverlust : 0..MaxLoss] :
        st.mrbqty + st.rverlust <= MaxLoss }

\* the table get_yield is called on: row 0 carries the work order's own fields
RoutingTable(s) ==
    [i \in 0..Len(s) |->
        IF i = 0 THEN Row("7001", "Bracket", 0, 0, 0, 0)
        ELSE Row(WorkSlip(i), s[i].artbez, s[i].frgmge, s[i].ycomplete,
                 s[i].mrbqty, s[i].rverlust)]

\* wo_updater.py lines 318-336: what get_yield_data returns for the k-th
\* confirmation of the list, (quantity, date, time of day)
Stamp(k) == "0" \o ToString(k) \o ":15"
ConfirmationSet == [qty : 0..MaxQty, date : Dates]
History(c) ==
    [raises |-> FALSE,
     records |-> [k \in 1..Len(c) |-> <<c[k].qty, c[k].date, Stamp(k)>>]]
LookupFails == [raises |-> TRUE, records |-> <<>>]

\* the confirmation histories answered to get_yield's lookup
YieldHistorySet ==
    HistorySet \cup
    { [raises |-> FALSE, records |-> << <<2, "11/03/26", "09:15">> >>],
      [raises |-> FALSE, records |-> << <<1, start_date, "10:22">>, <<0, "11/03/26", "11:40">> >>] }

\* po_notifier.py lines 348-357: the loop over the routing steps
RECURSIVE NextProcessScan(_, _, _)
NextProcessScan(table, i, process) ==
    IF i > len(table) - 1 THEN [raised |-> "none", returned |-> "Not Found"]
    ELSE IF table[i].art = process
    THEN IF i = len(table) - 1
         THEN [raised |-> "none", returned |-> "None"]
         ELSE IF table[i + 1].artbez = "1st Off"
         THEN IF i + 2 >= len(table)
              THEN [raised |-> "IndexError", returned |-> ""]
              ELSE [raised |-> "none", returned |-> table[i + 2].artbez]
         ELSE [raised |-> "none", returned |-> table[i + 1].artbez]
    ELSE NextProcessScan(table, i + 1, process)

\* get_next_process with a seeded fault: a following "1st Off" step is not skipped
get_next_process_NoSkip(wo_num, process, response) ==
    LET table == response.table
        found == {i \in 1..(len(table) - 1) : table[i].art = process}
    IN  IF response.raises THEN [raised |-> "requests", returned |-> ""]
        ELSE IF found = {} THEN [raised |-> "none", returned |-> "Not Found"]
        ELSE IF Min(found) = len(table) - 1 THEN [raised |-> "none", returned |-> "None"]
        ELSE [raised |-> "none", returned |-> table[Min(found) + 1].artbez]

\* po_notifier.py lines 314-357; response is what the production center answers
get_next_process(wo_num, process, response) ==
    IF response.raises THEN [raised |-> "requests", returned |-> ""]
    ELSE NextProcessScan(response.table, 1, process)

\* the routing steps the production center answers get_next_process with
ProcessStepSet == [art : Products, artbez : {"Drilling", "1st Off"}]
ProcessTable(s) ==
    [i \in 0..Len(s) |->
        IF i = 0 THEN [art |-> "Bracket", artbez |-> "Bracket"] ELSE s[i]]

InitCall ==
    /\ \/ /\ func = "get_yield"
          /\ \E n \in 1..MaxSteps : \E s \in [1..n -> YieldStepSet] : \E date \in Dates :
                args = [prod_table |-> RoutingTable(s), date |-> date]
       \/ /\ func = "get_yielded_date"
          /\ \E work_slip \in {"", WorkSlip(1)} : \E sum_qty \in 0..(MaxQty + MaxLoss) :
                args = [work_slip |-> work_slip, sum_qty |-> sum_qty]
       \/ /\ func = "get_next_process"
          /\ \E process \in Products : args = [wo_num |-> "7001", process |-> process]
    /\ call_pc = "ready"
    /\ outcome = <<>>
    /\ IdleQ
    /\ IdleF
    /\ IdleU
    /\ IdleM

\* wo_updater.py lines 372-407
CallGetYield ==
    /\ func = "get_yield"
    /\ call_pc = "ready"
    /\ \E history \in YieldHistorySet :
          outcome' = [call |-> get_yield(args.prod_table, args.date, history),
                      answered |-> history]
    /\ call_pc' = "done"
    /\ UNCHANGED <<func, args, varsQ, varsF, varsU, varsM>>

\* wo_updater.py lines 339-369
CallGetYieldedDate ==
    /\ func = "get_yielded_date"
    /\ call_pc = "ready"
    /\ \E history \in {LookupFails} \cup
                      UNION {{History(c) : c \in [1..n -> ConfirmationSet]} : n \in 0..MaxRecords} :
          outcome' = [call |-> get_yielded_date(args.work_slip, args.sum_qty, history),
                      answered |-> history]
    /\ call_pc' = "done"
    /\ UNCHANGED <<func, args, varsQ, varsF, varsU, varsM>>

\* po_notifier.py lines 314-357
CallGetNextProcess ==
    /\ func = "get_next_process"
    /\ call_pc = "ready"
    /\ \E response \in {[raises |-> TRUE, table |-> ProcessTable(<<>>)]} \cup
                       UNION {{[raises |-> FALSE, table |-> ProcessTable(s)] :
                                  s \in [1..n -> ProcessStepSet]} : n \in 1..MaxSteps} :
          outcome' = [call |-> get_next_process(args.wo_num, args.process, response),
                      answered |-> response]
    /\ call_pc' = "done"
    /\ UNCHANGED <<func, args, varsQ, varsF, varsU, varsM>>

NextCall ==
    \/ CallGetYield
    \/ CallGetYieldedDate
    \/ CallGetNextProcess

SpecCall == InitCall /\ [][NextCall]_vars

(***************************************************************************)
(* Vocabulary of the statements about get_yield, get_yielded_date and      *)
(* get_next_process.                                                       *)
(***************************************************************************)
YieldCalled == func = "get_yield" /\ call_pc = "done"

LastStep == len(args.prod_table) - 1

\* the steps with nothing left to release
ReleasedSteps == {i \in 1..LastStep : args.prod_table[i].frgmge <= 0}

RowSum(i) ==
    args.prod_table[i].ycomplete + args.prod_table[i].mrbqty + args.prod_table[i].rverlust

\* the sum of the quantities of the k newest records
RECURSIVE NewestTotal(_, _)
NewestTotal(records, k) ==
    IF k = 0 THEN 0
    ELSE records[Len(records) - k + 1][1] + NewestTotal(records, k - 1)

\* the numbers k of newest records whose quantities add up to sum_qty
Hits(records, sum_qty) == {k \in 1..Len(records) : NewestTotal(records, k) = sum_qty}

\* what the backward scan resolves: the date and time of the newest record
\* with a nonzero quantity, once the running total has met sum_qty
Resolved(records, sum_qty) ==
    IF Hits(records, sum_qty) = {} THEN <<"ERROR", "N/A">>
    ELSE LET k == Min(Hits(records, sum_qty))
             nonzero == {j \in (Len(records) - k + 1)..Len(records) : records[j][1] # 0}
         IN  IF nonzero = {} THEN <<"", "">>
             ELSE <<records[Max(nonzero)][2], records[Max(nonzero)][3]>>

\* the candidate of step i resolves to the date the call is made for
CandidateMatches(i) ==
    /\ ~outcome.answered.raises
    /\ Resolved(outcome.answered.records, RowSum(i))[1] = args.date

YieldMatched == outcome.call.raised = "none" /\ outcome.call.returned[1]

(***************************************************************************)
(* C11: get_yield returns matched = true exactly when some step has        *)
(* released_qty <= 0 and the candidate date of the highest such step i     *)
(* equals the target date; the result then carries the work slip, the      *)
(* description and the completed quantity of step i and the candidate's    *)
(* timestamp.  No step below i is examined, and a table without such a     *)
(* step gives matched = false.                                             *)
(***************************************************************************)
C11_MatchIffTopReleasedStepMatches ==
    YieldCalled =>
        LET t == args.prod_table
            i == Max(ReleasedSteps)
        IN  /\ YieldMatched <=> (ReleasedSteps # {} /\ CandidateMatches(i))
            /\ YieldMatched =>
                  /\ outcome.call.returned[2] = t[i].order
                  /\ outcome.call.returned[3] = t[i].artbez
                  /\ outcome.call.returned[4] = t[i].ycomplete
                  /\ outcome.call.returned[6] =
                        Resolved(outcome.answered.records, RowSum(i))[2]
            /\ ReleasedSteps # {} => outcome.call.lookups = << <<t[i].order, RowSum(i)>> >>
            /\ ReleasedSteps = {} =>
                  /\ outcome.call.lookups = <<>>
                  /\ outcome.call.raised = "none"
                  /\ ~outcome.call.returned[1]

(***************************************************************************)
(* C12 as stated: whenever the last step of the table has released_qty > 0 *)
(* get_yield returns matched = false, whatever the target date and the     *)
(* confirmation history.                                                   *)
(***************************************************************************)
C12_LastStepUnreleasedNoMatch ==
    (YieldCalled /\ args.prod_table[LastStep].frgmge > 0) => ~YieldMatched

(***************************************************************************)
(* C12 amended: whenever every step of the table has released_qty > 0      *)
(* get_yield returns matched = false with every field "N/A" and without    *)
(* looking up any confirmation, whatever the target date and the history.  *)
(***************************************************************************)
C12_NoReleasedStepNoMatch ==
    (YieldCalled /\ \A i \in 1..LastStep : args.prod_table[i].frgmge > 0) =>
        /\ outcome.call.raised = "none"
        /\ outcome.call.returned = NoYield
        /\ outcome.call.lookups = <<>>

\* a three-step table with nothing released, called for the date on which the
\* answered history records the whole quantity of the last step
C12_Witness ==
    /\ YieldCalled
    /\ LastStep = MaxSteps
    /\ \A i \in 1..LastStep : args.prod_table[i].frgmge > 0
    /\ ~outcome.answered.raises
    /\ Resolved(outcome.answered.records, RowSum(LastStep))[1] = args.date
    /\ outcome.call.returned = NoYield

YieldedDateCalled == func = "get_yielded_date" /\ call_pc = "done"

(***************************************************************************)
(* C13: for a work slip whose confirmation history is answered,            *)
(* get_yielded_date adds the quantities from the newest record backward    *)
(* and, as soon as the total equals sum_qty, returns the date and time of  *)
(* the newest record with a nonzero quantity (two empty strings when the   *)
(* records added so far all have quantity 0); when the total never equals  *)
(* sum_qty, also for an empty history, it returns ("ERROR", "N/A"), and    *)
(* get_yield then reports matched = false.                                 *)
(***************************************************************************)
C13_DateOfNewestNonzeroRecord ==
    /\ (YieldedDateCalled /\ args.work_slip # "" /\ ~outcome.answered.raises) =>
          /\ outcome.call.raised = "none"
          /\ outcome.call.returned = Resolved(outcome.answered.records, args.sum_qty)
    /\ (YieldCalled /\ ReleasedSteps # {} /\ ~outcome.answered.raises
          /\ Hits(outcome.answered.records, RowSum(Max(ReleasedSteps))) = {}) =>
          /\ outcome.call.raised = "none"
          /\ outcome.call.returned = NoYield

\* the newest of three records has quantity 0 and the total is met at the oldest:
\* the date and time returned are those of the middle record
C13_Witness ==
    /\ YieldedDateCalled
    /\ args.work_slip # ""
    /\ Len(outcome.answered.records) = MaxRecords
    /\ outcome.answered.records[MaxRecords][1] = 0
    /\ outcome.answered.records[MaxRecords - 1][2] # outcome.answered.records[MaxRecords][2]
    /\ Hits(outcome.answered.records, args.sum_qty) = {MaxRecords}
    /\ outcome.call.returned = <<outcome.answered.records[MaxRecords - 1][2], Stamp(MaxRecords - 1)>>

NextProcessCalled == func = "get_next_process" /\ call_pc = "done"

\* the next process after step i of table t: the step after i, or the one after
\* that when the step after i is a "1st Off"; "None" after the last step
NextAfter(t, i) ==
    IF i = len(t) - 1 THEN "None"
    ELSE IF t[i + 1].artbez = "1st Off"
    THEN IF i + 2 <= len(t) - 1 THEN t[i + 2].artbez ELSE "<no such step>"
    ELSE t[i + 1].artbez

\* the steps of the answered routing whose art field is the process asked for
StepsOfProcess ==
    {i \in 1..(len(outcome.answered.table) - 1) : outcome.answered.table[i].art = args.process}

(***************************************************************************)
(* C14: on a match at step i get_yield reports as next process "None" when *)
(* i is the last step, description(i + 2) when description(i + 1) is       *)
(* "1st Off", and description(i + 1) otherwise; get_next_process returns   *)
(* the same for the first step of the process it is asked about, and       *)
(* "Not Found" when the routing has no such step.                          *)
(***************************************************************************)
C14_NextProcessSkipsFirstOff ==
    /\ (YieldCalled /\ YieldMatched) =>
          outcome.call.returned[5] = NextAfter(args.prod_table, Max(ReleasedSteps))
    /\ (NextProcessCalled /\ outcome.call.raised = "none") =>
          outcome.call.returned =
              IF StepsOfProcess = {} THEN "Not Found"
              ELSE NextAfter(outcome.answered.table, Min(StepsOfProcess))

\* a match at step 1 of three, step 2 being a "1st Off": step 3 is reported
C14_Witness ==
    /\ YieldCalled
    /\ YieldMatched
    /\ LastStep = MaxSteps
    /\ Max(ReleasedSteps) = MaxSteps - 2
    /\ args.prod_table[MaxSteps - 1].artbez = "1st Off"
    /\ args.prod_table[MaxSteps].artbez = "Drilling"
    /\ outcome.call.returned[5] = "Drilling"

(***************************************************************************)
(* The purchase order notifier (src/po_notifier.py).  A Python list is a   *)
(* sequence; At and SetAt take Python's indices, which start at 0.  A      *)
(* quantity cell holds Str(text) as long as it is the journal's text and   *)
(* Num(x) once it is the float of a sum; an item number is Num(i).         *)
(***************************************************************************)
MaxRows == 3

At(list, k) == list[k + 1]
SetAt(list, k, v) == [list EXCEPT ![k + 1] = v]

\* the text of a sequence of characters
RECURSIVE Text(_)
Text(cs) == IF cs = <<>> THEN "" ELSE Head(cs) \o Text(Tail(cs))

\* Python's  s.replace(old, new)  on the characters of s
RECURSIVE ReplaceChars(_, _, _)
ReplaceChars(cs, old, new) ==
    IF cs = <<>> THEN <<>>
    ELSE IF Len(old) <= Len(cs) /\ SubSeq(cs, 1, Len(old)) = old
    THEN new \o ReplaceChars(SubSeq(cs, Len(old) + 1, Len(cs)), old, new)
    ELSE <<Head(cs)>> \o ReplaceChars(Tail(cs), old, new)

replace(s, old, new) == Text(ReplaceChars(Chars(s), Chars(old), Chars(new)))

\* Python's  ', '.join(list)
RECURSIVE join(_, _)
join(sep, list) ==
    IF list = <<>> THEN ""
    ELSE IF Len(list) = 1 THEN list[1]
    ELSE list[1] \o sep \o join(sep, Tail(list))

\* float(locale.atof(text)) of a quantity cell
atof(cell) == CHOOSE x \in 0..(MaxRows * MaxQty) : ToString(x) = cell.str

\* lines 414-416: the loop over the rows of the purchase order; collected is wo_list
RECURSIVE WoNumsScan(_, _, _, _)
WoNumsScan(table, k, process, collected) ==
    IF k > Len(table) THEN collected
    ELSE IF Contains(table[k].ptext, "WO") /\ table[k].artikel = process
    THEN WoNumsScan(table, k + 1, process, Append(collected, replace(table[k].ptext, "WO ", "")))
    ELSE WoNumsScan(table, k + 1, process, collected)

\* lines 402-417; response is what the purchase order database answers
get_wo_nums(database_id, process, response) ==
    IF response.raises THEN [raised |-> "requests", returned |-> <<>>]
    ELSE [raised |-> "none", returned |-> WoNumsScan(response.table, 1, process, <<>>)]

\* EmitProcessing with a seeded fault: the work order lookup is issued twice
EmitProcessing_LooksUpTwice(data, answers, s, i) ==
    LET first == At(data, s.prev_row)
        wo == get_wo_nums(At(first, 4), At(first, 3), answers.po[At(first, 4)])
        calls1 == s.calls \o << <<"get_wo_nums", At(first, 4), At(first, 3)>>,
                                 <<"get_wo_nums", At(first, 4), At(first, 3)>> >>
        wo_nums == join(", ", wo.returned)
        row1 == SetAt(first, 4, wo_nums)
        next == get_next_process(At(wo.returned, 0), At(row1, 3), answers.routing)
        calls2 == Append(calls1, <<"get_next_process", At(wo.returned, 0), At(row1, 3)>>)
        row2 == SetAt(row1, 7, next.returned)
        row3 == IF s.merged THEN SetAt(row2, 6, Num(s.prev_qty)) ELSE row2
        emitted == [s EXCEPT !.merged_data = Append(@, row3), !.calls = calls2,
                             !.merged = FALSE]
    IN  IF wo.raised # "none"
        THEN [s EXCEPT !.raised = wo.raised, !.calls = calls1]
        ELSE IF wo.returned = <<>>
        THEN [s EXCEPT !.raised = "IndexError", !.calls = calls1]
        ELSE IF next.raised # "none"
        THEN [s EXCEPT !.raised = next.raised, !.calls = calls2]
        ELSE IF s.curr_pn # "No Value"
        THEN [emitted EXCEPT !.prev_pn = s.curr_pn, !.prev_loc = s.curr_loc,
                             !.prev_qty = s.curr_qty, !.prev_row = i]
        ELSE emitted

\* lines 384-397: the else branch of merge_processing_data at iteration i; the
\* calls made are listed in calls, an exception ends the function
EmitProcessing(data, answers, s, i) ==
    LET first == At(data, s.prev_row)
        wo == get_wo_nums(At(first, 4), At(first, 3), answers.po[At(first, 4)])
        calls1 == Append(s.calls, <<"get_wo_nums", At(first, 4), At(first, 3)>>)
        wo_nums == join(", ", wo.returned)
        row1 == SetAt(first, 4, wo_nums)
        next == get_next_process(At(wo.returned, 0), At(row1, 3), answers.routing)
        calls2 == Append(calls1, <<"get_next_process", At(wo.returned, 0), At(row1, 3)>>)
        row2 == SetAt(row1, 7, next.returned)
        row3 == IF s.merged THEN SetAt(row2, 6, Num(s.prev_qty)) ELSE row2
        emitted == [s EXCEPT !.merged_data = Append(@, row3), !.calls = calls2,
                             !.merged = FALSE]
    IN  IF wo.raised # "none"
        THEN [s EXCEPT !.raised = wo.raised, !.calls = calls1]
        ELSE IF wo.returned = <<>>
        THEN [s EXCEPT !.raised = "IndexError", !.calls = calls1]
        ELSE IF next.raised # "none"
        THEN [s EXCEPT !.raised = next.raised, !.calls = calls2]
        ELSE IF s.curr_pn # "No Value"
        THEN [emitted EXCEPT !.prev_pn = s.curr_pn, !.prev_loc = s.curr_loc,
                             !.prev_qty = s.curr_qty, !.prev_row = i]
        ELSE emitted

\* lines 376-397: the for loop of merge_processing_data from iteration i on
RECURSIVE MergeProcessingLoop(_, _, _, _)
MergeProcessingLoop(data, answers, i, s) ==
    IF i > Len(data) \/ s.raised # "none" THEN s
    ELSE LET c == IF i < Len(data)
                  THEN [s EXCEPT !.curr_pn = At(At(data, i), 3),
                                 !.curr_loc = At(At(data, i), 5),
                                 !.curr_qty = atof(At(At(data, i), 6))]
                  ELSE s
         IN  IF i < Len(data) /\ c.curr_pn = c.prev_pn /\ c.curr_loc = c.prev_loc
             THEN MergeProcessingLoop(data, answers, i + 1,
                                      [c EXCEPT !.prev_qty = @ + c.curr_qty, !.merged = TRUE])
             ELSE MergeProcessingLoop(data, answers, i + 1, EmitProcessing(data, answers, c, i))

\* merge_processing_data with a seeded fault: the sum starts without the first row
merge_processing_data_ZeroStart(data, answers) ==
    LET s == MergeProcessingLoop(data, answers, 1,
                 [merged_data |-> <<>>, prev_pn |-> At(At(data, 0), 3),
                  prev_loc |-> At(At(data, 0), 5), prev_qty |-> 0,
                  prev_row |-> 0, merged |-> FALSE, curr_pn |-> "No Value",
                  curr_loc |-> NotBound, curr_qty |-> 0, calls |-> <<>>, raised |-> "none"])
    IN  [raised |-> s.raised,
         returned |-> IF s.raised = "none" THEN s.merged_data ELSE <<>>,
         calls |-> s.calls]

\* merge_processing_data with a seeded fault: a failed enrichment is swallowed and
\* the rows emitted so far are returned
merge_processing_data_Swallowing(data, answers) ==
    LET s == MergeProcessingLoop(data, answers, 1,
                 [merged_data |-> <<>>, prev_pn |-> At(At(data, 0), 3),
                  prev_loc |-> At(At(data, 0), 5), prev_qty |-> atof(At(At(data, 0), 6)),
                  prev_row |-> 0, merged |-> FALSE, curr_pn |-> "No Value",
                  curr_loc |-> NotBound, curr_qty |-> 0, calls |-> <<>>, raised |-> "none"])
    IN  [raised |-> "none", returned |-> s.merged_data, calls |-> s.calls]

\* lines 360-399; answers is what the purchase order database and the production
\* center answer.  The rows appended are the rows of data themselves, changed in
\* place; data is not read again at a row that has been emitted.
merge_processing_data(data, answers) ==
    LET s == MergeProcessingLoop(data, answers, 1,
                 [merged_data |-> <<>>, prev_pn |-> At(At(data, 0), 3),
                  prev_loc |-> At(At(data, 0), 5), prev_qty |-> atof(At(At(data, 0), 6)),
                  prev_row |-> 0, merged |-> FALSE, curr_pn |-> "No Value",
                  curr_loc |-> NotBound, curr_qty |-> 0, calls |-> <<>>, raised |-> "none"])
    IN  [raised |-> s.raised,
         returned |-> IF s.raised = "none" THEN s.merged_data ELSE <<>>,
         calls |-> s.calls]

\* MaterialsFields with a seeded fault: the item text is not compared
MaterialsFields_NoItemText(record) ==
    <<At(record, 0), At(record, 1), At(record, 2), At(record, 3), At(record, 5)>>

\* lines 158-163, 172-177 and 179-181: the six fields that are compared
MaterialsFields(record) ==
    <<At(record, 0), At(record, 1), At(record, 2), At(record, 3), At(record, 4),
      At(record, 5)>>

\* lines 170-197: the for loop of merge_materials_data from iteration i on; prev
\* and curr stand for the six prev_ and curr_ variables
RECURSIVE MergeMaterialsLoop(_, _, _)
MergeMaterialsLoop(data, i, s) ==
    IF i > Len(data) THEN s
    ELSE LET c == IF i < Len(data)
                  THEN [s EXCEPT !.curr = MaterialsFields(At(data, i)),
                                 !.curr_qty = atof(At(At(data, i), 6))]
                  ELSE s
             first == At(data, c.prev_row)
             emitted == [c EXCEPT !.merged_data =
                                       Append(@, IF c.merged
                                                 THEN SetAt(first, 6, Num(c.prev_qty))
                                                 ELSE first),
                                  !.merged = FALSE]
         IN  IF i < Len(data) /\ c.curr = c.prev
             THEN MergeMaterialsLoop(data, i + 1,
                                     [c EXCEPT !.prev_qty = @ + c.curr_qty, !.merged = TRUE])
             ELSE IF At(c.curr, 0) # "No Value"
             THEN MergeMaterialsLoop(data, i + 1,
                                     [emitted EXCEPT !.prev = c.curr, !.prev_qty = c.curr_qty,
                                                     !.prev_row = i])
             ELSE MergeMaterialsLoop(data, i + 1, emitted)

\* lines 149-199
merge_materials_data(data) ==
    LET s == MergeMaterialsLoop(data, 1,
                 [merged_data |-> <<>>, prev |-> MaterialsFields(At(data, 0)),
                  prev_qty |-> atof(At(At(data, 0), 6)), prev_row |-> 0, merged |-> FALSE,
                  curr |-> <<"No Value", NotBound, NotBound, NotBound, NotBound, NotBound>>,
                  curr_qty |-> 0])
    IN  [raised |-> "none", returned |-> s.merged_data, calls |-> <<>>]

(***************************************************************************)
(* Specification: one call of merge_processing_data or of                  *)
(* merge_materials_data on a non-empty list of rows.                       *)
(***************************************************************************)
\* a purchase order of a journal row: the text and the database id of ypurchaseorder
PurchaseOrders == {[text |-> "+4501", value |-> "PO1"], [text |-> "+4502", value |-> "PO2"]}
PoIds == {po.value : po \in PurchaseOrders}

\* lines 485-494: the row get_processing_data builds
ProcessingRow(po, supplier, process, receipt_loc, qty) ==
    <<replace(po.text, "+", ""), supplier, "Bracket", process, po.value, receipt_loc,
      Str(qty), "-">>

ProcessingRowSet ==
    {ProcessingRow(po, "ACME", process, loc, ToString(qty)) :
        po \in PurchaseOrders, process \in Products,
        loc \in {"PROCESSING", "PROCESSING WH"}, qty \in 1..MaxQty}

\* line 267: the row get_materials_data builds
MaterialsRow(po, supplier, material, item_text, receipt_loc, qty) ==
    <<po, supplier, "Bar stock", material, item_text, receipt_loc, Str(qty)>>

MaterialsRowSet ==
    {MaterialsRow(po, "ACME", material, item_text, "MATERIAL WH", ToString(qty)) :
        po \in {"-", "4501"}, material \in Products, item_text \in {"-", "Freight"},
        qty \in 1..MaxQty}

\* what the purchase order database answers get_wo_nums with
PoAnswerSet ==
    { [raises |-> TRUE, table |-> <<>>],
      [raises |-> FALSE, table |-> << [ptext |-> "Freight", artikel |-> "DP-100"] >>],
      [raises |-> FALSE,
       table |-> << [ptext |-> "WO 1001", artikel |-> "DP-100"],
                    [ptext |-> "WO 1002", artikel |-> "DP-100"],
                    [ptext |-> "WO 1002", artikel |-> "AS-200"],
                    [ptext |-> "Freight", artikel |-> "AS-200"] >>] }

\* what the production center answers get_next_process with
RoutingAnswerSet ==
    { [raises |-> TRUE, table |-> ProcessTable(<<>>)],
      [raises |-> FALSE,
       table |-> ProcessTable(<< [art |-> "DP-100", artbez |-> "Drilling"],
                                 [art |-> "AS-200", artbez |-> "Inspection"] >>)] }

AnswerSet == [po : [PoIds -> PoAnswerSet], routing : RoutingAnswerSet]

InitMerge ==
    /\ \/ /\ func = "merge_processing_data"
          /\ \E n \in 1..MaxRows : \E data \in [1..n -> ProcessingRowSet] :
                args = [data |-> data]
       \/ /\ func = "merge_materials_data"
          /\ \E n \in 1..MaxRows : \E data \in [1..n -> MaterialsRowSet] :
                args = [data |-> data]
    /\ call_pc = "ready"
    /\ outcome = <<>>
    /\ IdleQ
    /\ IdleF
    /\ IdleU
    /\ IdleM

\* lines 360-399
CallMergeProcessing ==
    /\ func = "merge_processing_data"
    /\ call_pc = "ready"
    /\ \E answers \in AnswerSet :
          outcome' = [call |-> merge_processing_data(args.data, answers),
                      answered |-> answers]
    /\ call_pc' = "done"
    /\ UNCHANGED <<func, args, varsQ, varsF, varsU, varsM>>

\* lines 149-199
CallMergeMaterials ==
    /\ func = "merge_materials_data"
    /\ call_pc = "ready"
    /\ outcome' = [call |-> merge_materials_data(args.data), answered |-> <<>>]
    /\ call_pc' = "done"
    /\ UNCHANGED <<func, args, varsQ, varsF, varsU, varsM>>

NextMerge ==
    \/ CallMergeProcessing
    \/ CallMergeMaterials

SpecMerge == InitMerge /\ [][NextMerge]_vars

(***************************************************************************)
(* Vocabulary of the statements about the merge functions.                 *)
(***************************************************************************)
MergeCalled ==
    func \in {"merge_processing_data", "merge_materials_data"} /\ call_pc = "done"

MergeReturned == MergeCalled /\ outcome.call.raised = "none"

\* the grouping key of a row: process and receipt location in the processing
\* report; PO, supplier, description, part number, item text and receipt
\* location in the materials report
GroupingKey(record) ==
    IF func = "merge_processing_data" THEN <<record[4], record[6]>>
    ELSE <<record[1], record[2], record[3], record[4], record[5], record[6]>>

\* the columns that no enrichment and no sum is written to
CopiedColumns == IF func = "merge_processing_data" THEN {1, 2, 3, 4, 6} ELSE 1..6

\* the positions of args.data at which a maximal run of equal keys starts
RunStarts ==
    {i \in 1..Len(args.data) :
        i = 1 \/ GroupingKey(args.data[i]) # GroupingKey(args.data[i - 1])}

RunEnd(i) ==
    Max({j \in i..Len(args.data) :
            \A m \in i..j : GroupingKey(args.data[m]) = GroupingKey(args.data[i])})

\* the start of the k-th run
NthStart(k) == CHOOSE i \in RunStarts : Cardinality({j \in RunStarts : j < i}) = k - 1

\* the number a quantity cell stands for
QtyValue(cell) == IF "num" \in DOMAIN cell THEN cell.num ELSE atof(cell)

RECURSIVE SumQty(_, _, _)
SumQty(rows, i, j) == IF i > j THEN 0 ELSE QtyValue(rows[i][7]) + SumQty(rows, i + 1, j)

(***************************************************************************)
(* C15: a merge that returns emits one row per maximal run of adjacent     *)
(* rows with equal grouping key, in input order; the row is the first row  *)
(* of its run, with the quantity replaced by the sum of the run when the   *)
(* run has more than one row and untouched otherwise.  With all keys       *)
(* different the output has the rows and quantities of the input, and the  *)
(* quantities of the output add up to those of the input.                  *)
(* merge_materials_data always returns.                                    *)
(***************************************************************************)
C15_OneRowPerRun ==
    /\ (MergeCalled /\ func = "merge_materials_data") => outcome.call.raised = "none"
    /\ MergeReturned =>
          LET out == outcome.call.returned
          IN  /\ Len(out) = Cardinality(RunStarts)
              /\ \A k \in 1..Len(out) :
                    /\ \A c \in CopiedColumns : out[k][c] = args.data[NthStart(k)][c]
                    /\ out[k][7] =
                          IF RunEnd(NthStart(k)) = NthStart(k)
                          THEN args.data[NthStart(k)][7]
                          ELSE Num(SumQty(args.data, NthStart(k), RunEnd(NthStart(k))))
              /\ Cardinality(RunStarts) = Len(args.data) =>
                    \A k \in 1..Len(out) : out[k][7] = args.data[k][7]
              /\ SumQty(out, 1, Len(out)) = SumQty(args.data, 1, Len(args.data))

\* three processing rows, the first two with one key, the third with another:
\* a summed row followed by an untouched one
C15_Witness ==
    /\ MergeReturned
    /\ func = "merge_processing_data"
    /\ Len(args.data) = MaxRows
    /\ RunStarts = {1, MaxRows}
    /\ Len(outcome.call.returned) = 2
    /\ outcome.call.returned[1][7] = Num(SumQty(args.data, 1, MaxRows - 1))
    /\ outcome.call.returned[2][7] = args.data[MaxRows][7]

\* the calls of an enrichment function that the merge made, in order
CallsOf(name) == SelectSeq(outcome.call.calls, LAMBDA call : call[1] = name)

(***************************************************************************)
(* C16: when all rows of the input have the same grouping key, a merge     *)
(* that returns gives exactly one row whose quantity is the sum of all     *)
(* input quantities, and merge_processing_data enriches once: one call of  *)
(* get_wo_nums with the purchase order and the process of the first input  *)
(* row, then one call of get_next_process with the first work order found  *)
(* and that process.  No second call is made when the enrichment fails.    *)
(***************************************************************************)
C16_SingleGroupEnrichedOnce ==
    (MergeCalled /\ RunStarts = {1}) =>
        /\ MergeReturned =>
              /\ Len(outcome.call.returned) = 1
              /\ QtyValue(outcome.call.returned[1][7]) = SumQty(args.data, 1, Len(args.data))
              /\ Len(args.data) > 1 =>
                    outcome.call.returned[1][7] = Num(SumQty(args.data, 1, Len(args.data)))
        /\ func = "merge_processing_data" =>
              /\ CallsOf("get_wo_nums") =
                    << <<"get_wo_nums", args.data[1][5], args.data[1][4]>> >>
              /\ Len(CallsOf("get_next_process")) <= 1
              /\ MergeReturned =>
                    /\ Len(outcome.call.calls) = 2
                    /\ outcome.call.calls[2] =
                          <<"get_next_process",
                            get_wo_nums(args.data[1][5], args.data[1][4],
                                        outcome.answered.po[args.data[1][5]]).returned[1],
                            args.data[1][4]>>

\* three processing rows of one key, the first from another purchase order than
\* the second: one row with the sum, enriched from the first row's purchase order
C16_Witness ==
    /\ MergeReturned
    /\ func = "merge_processing_data"
    /\ Len(args.data) = MaxRows
    /\ RunStarts = {1}
    /\ args.data[1][5] # args.data[2][5]
    /\ outcome.call.returned[1][7] = Num(SumQty(args.data, 1, MaxRows))
    /\ Len(outcome.call.calls) = 2

\* what get_wo_nums gives for the run that starts at row i, under the answers made
WoNumsOfRun(i) ==
    get_wo_nums(args.data[i][5], args.data[i][4], outcome.answered.po[args.data[i][5]])

\* the enrichment of the run that starts at row i fails: a lookup raises, or no
\* work order is found and there is no first work order to ask the next process of
EnrichmentFails(i) ==
    \/ WoNumsOfRun(i).raised # "none"
    \/ WoNumsOfRun(i).returned = <<>>
    \/ get_next_process(WoNumsOfRun(i).returned[1], args.data[i][4],
                        outcome.answered.routing).raised # "none"

FailingRuns == {i \in RunStarts : EnrichmentFails(i)}

(***************************************************************************)
(* C19: when the enrichment of some group fails inside                     *)
(* merge_processing_data, the call ends with that exception: nothing is    *)
(* returned, not even the rows emitted before, the failing group is looked *)
(* up once and no later group is looked up.  Without a failing group the   *)
(* merge returns.                                                          *)
(***************************************************************************)
C19_EnrichmentFailurePropagates ==
    (MergeCalled /\ func = "merge_processing_data") =>
        IF FailingRuns = {}
        THEN outcome.call.raised = "none"
        ELSE /\ outcome.call.raised \in {"requests", "IndexError"}
             /\ outcome.call.returned = <<>>
             /\ Len(CallsOf("get_wo_nums")) =
                   Cardinality({i \in RunStarts : i <= Min(FailingRuns)})
             /\ Len(CallsOf("get_next_process")) \in
                   { Cardinality({i \in RunStarts : i < Min(FailingRuns)}),
                     Cardinality({i \in RunStarts : i <= Min(FailingRuns)}) }
             /\ (WoNumsOfRun(Min(FailingRuns)).raised = "none"
                   /\ WoNumsOfRun(Min(FailingRuns)).returned = <<>>) =>
                   /\ outcome.call.raised = "IndexError"
                   /\ Len(CallsOf("get_next_process")) =
                         Cardinality({i \in RunStarts : i < Min(FailingRuns)})

\* the first group is enriched, the second has no work order on its purchase order
C19_Witness ==
    /\ MergeCalled
    /\ func = "merge_processing_data"
    /\ FailingRuns # {}
    /\ Min(FailingRuns) > 1
    /\ WoNumsOfRun(Min(FailingRuns)).raised = "none"
    /\ WoNumsOfRun(Min(FailingRuns)).returned = <<>>
    /\ outcome.call.raised = "IndexError"
    /\ outcome.call.returned = <<>>
    /\ Len(outcome.call.calls) = 3

(***************************************************************************)
(* The report pipelines get_processing_data and get_materials_data.        *)
(***************************************************************************)
\* the characters of the texts that are sorted, in the order of their code points
Ascii ==
    <<" ", "+", "-", "0", "1", "2", "3", "4", "5", "6", "7", "8", "9",
       "A", "B", "C", "D", "E", "F", "G", "H", "I", "J", "K", "L", "M",
       "N", "O", "P", "Q", "R", "S", "T", "U", "V", "W", "X", "Y", "Z",
       "a", "b", "c", "d", "e", "f", "g", "h", "i", "j", "k", "l", "m",
       "n", "o", "p", "q", "r", "s", "t", "u", "v", "w", "x", "y", "z">>

Code(c) == CHOOSE k \in 1..Len(Ascii) : Ascii[k] = c

\* Python's  a < b  on strings
RECURSIVE CharsLess(_, _)
CharsLess(a, b) ==
    IF b = <<>> THEN FALSE
    ELSE IF a = <<>> THEN TRUE
    ELSE IF Head(a) = Head(b) THEN CharsLess(Tail(a), Tail(b))
    ELSE Code(Head(a)) < Code(Head(b))

\* Python's  a < b  on lists of strings
RECURSIVE ListLess(_, _)
ListLess(a, b) ==
    IF b = <<>> THEN FALSE
    ELSE IF a = <<>> THEN TRUE
    ELSE IF Head(a) = Head(b) THEN ListLess(Tail(a), Tail(b))
    ELSE CharsLess(Chars(Head(a)), Chars(Head(b)))

\* the sort key  [row[c] for c in columns]  of a row
SortKey(record, columns) == [k \in 1..Len(columns) |-> At(record, columns[k])]

\* the place of a row in a sorted list: behind every row whose key is not greater
RECURSIVE InsertSorted(_, _, _)
InsertSorted(list, record, columns) ==
    IF list = <<>> THEN <<record>>
    ELSE IF ListLess(SortKey(record, columns), SortKey(Head(list), columns))
    THEN <<record>> \o list
    ELSE <<Head(list)>> \o InsertSorted(Tail(list), record, columns)

\* Python's  sorted(data, key=lambda row: [row[c] for c in columns]),  which is stable
RECURSIVE sorted(_, _)
sorted(data, columns) ==
    IF data = <<>> THEN <<>>
    ELSE InsertSorted(sorted(SubSeq(data, 1, Len(data) - 1), columns),
                      data[Len(data)], columns)

\* Numbered with a seeded fault: the numbers start at 0
Numbered_FromZero(data) == [k \in 1..Len(data) |-> <<Num(k - 1)>> \o data[k]]

\* lines 507-508 and 280-281: every row gets its position, from 1, in front
Numbered(data) == [k \in 1..Len(data) |-> <<Num(k)>> \o data[k]]

\* lines 299-311; response is what the purchase order database answers
get_supplier(database_id, response) ==
    IF database_id = "" THEN [raised |-> "none", returned |-> "", calls |-> <<>>]
    ELSE IF response.raises
    THEN [raised |-> "requests", returned |-> "", calls |-> << <<"get_supplier", database_id>> >>]
    ELSE [raised |-> "none", returned |-> response.liefname,
          calls |-> << <<"get_supplier", database_id>> >>]

\* lines 130-146; response is what the packing slip database answers
get_packing_slip_info(database_id, response) ==
    IF database_id = "" THEN [raised |-> "none", returned |-> <<"-", "-">>, calls |-> <<>>]
    ELSE IF response.raises
    THEN [raised |-> "requests", returned |-> <<>>,
          calls |-> << <<"get_packing_slip_info", database_id>> >>]
    ELSE [raised |-> "none",
          returned |-> <<response.liefname,
                         IF response.ptext = "" THEN "-" ELSE response.ptext>>,
          calls |-> << <<"get_packing_slip_info", database_id>> >>]

\* lines 480-483 and 262-265: the quantity text of a journal row
QtyText(record) == IF record.zmge = "" THEN record.amge ELSE record.zmge

\* lines 511-521 and 284-293: the header rows
ProcessingHeader ==
    <<Str("Item"), "PO", "Supplier/Processor", "Description", "Process", "Work Order(s)",
      "Receipt Location", Str("QTY"), "Next Process">>
MaterialsHeader ==
    <<Str("Item"), "PO", "Supplier/Processor", "Description", "Part/Material Number",
      "Item Text", "Receipt Location", Str("QTY")>>

\* lines 466-494: the loop over the journal rows from row k on
RECURSIVE ProcessingRows(_, _, _, _)
ProcessingRows(table, answers, k, s) ==
    IF k > Len(table) \/ s.raised # "none" THEN s
    ELSE LET receipt_loc == table[k].nplatz
             purchaseorder == table[k].ypurchaseorder
             looked == get_supplier(purchaseorder.value, answers.supplier)
             po == IF purchaseorder.text = "" THEN "-"
                   ELSE replace(purchaseorder.text, "+", "")
             supplier == IF purchaseorder.text = "" THEN "-" ELSE looked.returned
             record == <<po, supplier, table[k].namebspr, table[k].ysuch,
                         purchaseorder.value, receipt_loc, Str(QtyText(table[k])), "-">>
         IN  IF ~Contains(receipt_loc, "PROCESSING")
             THEN ProcessingRows(table, answers, k + 1, s)
             ELSE IF purchaseorder.text = ""
             THEN ProcessingRows(table, answers, k + 1,
                                 [s EXCEPT !.data = Append(@, record)])
             ELSE IF looked.raised # "none"
             THEN [s EXCEPT !.raised = looked.raised, !.calls = @ \o looked.calls]
             ELSE ProcessingRows(table, answers, k + 1,
                                 [s EXCEPT !.data = Append(@, record),
                                           !.calls = @ \o looked.calls])

\* lines 420-523; journal is what the stock movement journal answers, answers what
\* the other servers answer; handed is the list given to merge_processing_data
get_processing_data(journal, answers) ==
    LET s == ProcessingRows(journal.table, answers, 1,
                            [data |-> <<>>, calls |-> <<>>, raised |-> "none"])
        data == sorted(s.data, <<4, 3, 5>>)
        merged == merge_processing_data(data, answers)
    IN  IF ~journal.has_table
        THEN [raised |-> "none", returned |-> Str("None"), calls |-> <<>>, handed |-> <<>>]
        ELSE IF s.raised # "none"
        THEN [raised |-> s.raised, returned |-> Str(""), calls |-> s.calls, handed |-> <<>>]
        ELSE IF s.data = <<>>
        THEN [raised |-> "none", returned |-> Str("None"), calls |-> s.calls,
              handed |-> <<>>]
        ELSE IF merged.raised # "none"
        THEN [raised |-> merged.raised, returned |-> Str(""),
              calls |-> s.calls \o merged.calls, handed |-> data]
        ELSE [raised |-> "none",
              returned |-> [report |-> <<ProcessingHeader>> \o Numbered(merged.returned)],
              calls |-> s.calls \o merged.calls, handed |-> data]

\* lines 247-267: the loop over the journal rows from row k on
RECURSIVE MaterialsRows(_, _, _, _)
MaterialsRows(table, answers, k, s) ==
    IF k > Len(table) \/ s.raised # "none" THEN s
    ELSE LET receipt_loc == table[k].nplatz
             purchaseorder == table[k].ypurchaseorder
             po == IF purchaseorder.text = "" THEN "-"
                   ELSE replace(purchaseorder.text, "+", "")
             info == get_packing_slip_info(table[k].ypurchasepackslip, answers.packslip)
             info_tuple == info.returned
             record == <<po, info_tuple[1], table[k].namebspr, table[k].ysuch,
                         info_tuple[2], receipt_loc, Str(QtyText(table[k]))>>
         IN  IF ~(Contains(receipt_loc, "MATERIAL") \/ Contains(receipt_loc, "HARDWARE"))
             THEN MaterialsRows(table, answers, k + 1, s)
             ELSE IF info.raised # "none"
             THEN [s EXCEPT !.raised = info.raised, !.calls = @ \o info.calls]
             ELSE MaterialsRows(table, answers, k + 1,
                                [s EXCEPT !.data = Append(@, record),
                                          !.calls = @ \o info.calls])

\* lines 202-296; handed is the list given to merge_materials_data
get_materials_data(journal, answers) ==
    LET s == MaterialsRows(journal.table, answers, 1,
                           [data |-> <<>>, calls |-> <<>>, raised |-> "none"])
        data == sorted(s.data, <<5, 3>>)
        merged == merge_materials_data(data)
    IN  IF ~journal.has_table
        THEN [raised |-> "none", returned |-> Str("None"), calls |-> <<>>, handed |-> <<>>]
        ELSE IF s.raised # "none"
        THEN [raised |-> s.raised, returned |-> Str(""), calls |-> s.calls, handed |-> <<>>]
        ELSE IF data = <<>>
        THEN [raised |-> "none", returned |-> Str("None"), calls |-> s.calls,
              handed |-> <<>>]
        ELSE [raised |-> "none",
              returned |-> [report |-> <<MaterialsHeader>> \o Numbered(merged.returned)],
              calls |-> s.calls, handed |-> data]

(***************************************************************************)
(* Specification: one run of get_processing_data or of get_materials_data  *)
(* on what the stock movement journal answers for yesterday.               *)
(***************************************************************************)
\* the quantity fields of a journal row: received (zmge) or, without it, issued (amge)
JournalQtySet == {[zmge |-> "1", amge |-> ""], [zmge |-> "", amge |-> ToString(MaxQty)]}

NoPurchaseOrder == [text |-> "", value |-> ""]

ProcessingJournalSet ==
    { [nplatz |-> nplatz, ypurchaseorder |-> po, ysuch |-> ysuch, namebspr |-> "Bracket",
       zmge |-> qty.zmge, amge |-> qty.amge, ypurchasepackslip |-> ""] :
        nplatz \in {"PROCESSING WH", "MATERIAL WH"},
        po \in PurchaseOrders \cup {NoPurchaseOrder}, ysuch \in Products,
        qty \in JournalQtySet }

MaterialsJournalSet ==
    { [nplatz |-> nplatz, ypurchaseorder |-> po, ysuch |-> ysuch, namebspr |-> "Bar stock",
       zmge |-> qty.zmge, amge |-> qty.amge, ypurchasepackslip |-> packslip] :
        nplatz \in {"MATERIAL WH", "HARDWARE WH", "PROCESSING WH"},
        po \in {[text |-> "+4501", value |-> "PO1"], NoPurchaseOrder},
        ysuch \in Products, packslip \in {"", "PS1"},
        qty \in {[zmge |-> "1", amge |-> ""]} }

NoTable == [has_table |-> FALSE, table |-> <<>>]

\* what the servers answer during a run of get_processing_data
ProcessingAnswerSet ==
    { [supplier |-> supplier, po |-> [id \in PoIds \cup {""} |-> po], routing |-> routing] :
        supplier \in {[raises |-> TRUE, liefname |-> ""], [raises |-> FALSE, liefname |-> "ACME"]},
        po \in PoAnswerSet, routing \in RoutingAnswerSet }

\* what the packing slip database answers during a run of get_materials_data
MaterialsAnswerSet ==
    { [packslip |-> packslip] :
        packslip \in { [raises |-> TRUE, liefname |-> "", ptext |-> ""],
                       [raises |-> FALSE, liefname |-> "ACME", ptext |-> "Freight"],
                       [raises |-> FALSE, liefname |-> "ACME", ptext |-> ""] } }

InitReport ==
    /\ \/ /\ func = "get_processing_data"
          /\ \/ args = [journal |-> NoTable]
             \/ \E n \in 1..MaxRows : \E table \in [1..n -> ProcessingJournalSet] :
                   args = [journal |-> [has_table |-> TRUE, table |-> table]]
       \/ /\ func = "get_materials_data"
          /\ \/ args = [journal |-> NoTable]
             \/ \E n \in 1..MaxRows : \E table \in [1..n -> MaterialsJournalSet] :
                   args = [journal |-> [has_table |-> TRUE, table |-> table]]
    /\ call_pc = "ready"
    /\ outcome = <<>>
    /\ IdleQ
    /\ IdleF
    /\ IdleU
    /\ IdleM

\* lines 420-523
GetProcessingData ==
    /\ func = "get_processing_data"
    /\ call_pc = "ready"
    /\ \E answers \in ProcessingAnswerSet :
          outcome' = [call |-> get_processing_data(args.journal, answers),
                      answered |-> answers]
    /\ call_pc' = "done"
    /\ UNCHANGED <<func, args, varsQ, varsF, varsU, varsM>>

\* lines 202-296
GetMaterialsData ==
    /\ func = "get_materials_data"
    /\ call_pc = "ready"
    /\ \E answers \in MaterialsAnswerSet :
          outcome' = [call |-> get_materials_data(args.journal, answers),
                      answered |-> answers]
    /\ call_pc' = "done"
    /\ UNCHANGED <<func, args, varsQ, varsF, varsU, varsM>>

NextReport ==
    \/ GetProcessingData
    \/ GetMaterialsData

SpecReport == InitReport /\ [][NextReport]_vars

(***************************************************************************)
(* Vocabulary of the statements about the reports.                         *)
(***************************************************************************)
ReportCalled == func \in {"get_processing_data", "get_materials_data"} /\ call_pc = "done"

\* the run ended with a report, not with "None" and not with an exception
ReportReturned ==
    ReportCalled /\ outcome.call.raised = "none" /\ "report" \in DOMAIN outcome.call.returned

\* the rows of the report below the header row
ReportRows == Tail(outcome.call.returned.report)

\* the grouping key of a row handed to the merge function of the pipeline
HandedKey(record) ==
    IF func = "get_processing_data" THEN <<record[4], record[6]>>
    ELSE <<record[1], record[2], record[3], record[4], record[5], record[6]>>

\* the grouping key of a row of the report, behind its item number
ReportKey(record) ==
    IF func = "get_processing_data" THEN <<record[5], record[7]>>
    ELSE <<record[2], record[3], record[4], record[5], record[6], record[7]>>

(***************************************************************************)
(* C18: in the list handed to the merge function the rows with equal       *)
(* grouping key are adjacent (as they are in a list sorted by that key),   *)
(* and no two rows of the report have the same grouping key.               *)
(***************************************************************************)
C18_HandedRowsSortedByGroupingKey ==
    ReportCalled =>
        LET handed == outcome.call.handed
        IN  /\ \A i, j \in 1..Len(handed) :
                  (i < j /\ HandedKey(handed[i]) = HandedKey(handed[j])) =>
                      \A m \in i..j : HandedKey(handed[m]) = HandedKey(handed[i])
            /\ ReportReturned =>
                  \A i, j \in 1..Len(ReportRows) :
                      i # j => ReportKey(ReportRows[i]) # ReportKey(ReportRows[j])

\* the journal rows that get_processing_data looks the supplier up for
SupplierRows ==
    SelectSeq(args.journal.table,
              LAMBDA raw : Contains(raw.nplatz, "PROCESSING") /\ raw.ypurchaseorder.text # "")

\* the journal rows that get_materials_data looks the packing slip up for
PackingSlipRows ==
    SelectSeq(args.journal.table,
              LAMBDA raw : /\ Contains(raw.nplatz, "MATERIAL") \/ Contains(raw.nplatz, "HARDWARE")
                           /\ raw.ypurchasepackslip # "")

Emitted ==
    IF func = "get_processing_data"
    THEN merge_processing_data(outcome.call.handed, outcome.answered).returned
    ELSE merge_materials_data(outcome.call.handed).returned

(***************************************************************************)
(* C20: a report starts with the header row, which has the text "Item" in  *)
(* place of a number; the rows below are the merged rows in the order of   *)
(* their emission, the k-th with the item number k in front: the numbers   *)
(* are 1..k without a gap or a repetition.                                 *)
(***************************************************************************)
C20_ItemNumbersFromOne ==
    ReportReturned =>
        LET report == outcome.call.returned.report
        IN  /\ report[1] =
                  IF func = "get_processing_data" THEN ProcessingHeader ELSE MaterialsHeader
            /\ "num" \notin DOMAIN report[1][1]
            /\ Len(ReportRows) = Len(Emitted)
            /\ Len(ReportRows) >= 1
            /\ \A k \in 1..Len(ReportRows) :
                  /\ ReportRows[k][1] = Num(k)
                  /\ Tail(ReportRows[k]) = Emitted[k]

\* a materials report with as many merged rows as the journal may have rows
C20_Witness ==
    /\ ReportReturned
    /\ func = "get_materials_data"
    /\ Len(ReportRows) = MaxRows
    /\ ReportRows[MaxRows][1] = Num(MaxRows)

(***************************************************************************)
(* Specification: in_quality or get_yield is called twice in a row on one  *)
(* table object, the servers answering the second call as the first.       *)
(* args.given keeps a copy of the table as it was before the first call,   *)
(* args.prod_table is the object the calls receive.                        *)
(***************************************************************************)
MaxTwice == 2     \* routing steps of a table that is passed twice

\* TableAfter with a seeded fault: the call zeroes the completed quantities it has read
TableAfter_Consuming(f, t) ==
    [i \in DOMAIN t |-> IF i = 0 THEN t[i] ELSE [t[i] EXCEPT !.ycomplete = 0]]

\* lines 218-315 and 372-407: the table object after a call of f; prod_table
\* is only subscripted and read, no statement assigns to it or to a row of it
TableAfter(f, t) == t

\* the call of f on table t with the answers a
CallOf(f, t, a) ==
    IF f = "in_quality" THEN in_quality(t, a.r)
    ELSE get_yield(t, a.date, a.history)

InitTwice ==
    /\ \/ /\ func = "in_quality"
          /\ \E n \in 1..MaxTwice : \E s \in [1..n -> StepSet] : \E r \in ResponseSet :
                args = [given |-> Table(s), prod_table |-> Table(s), answers |-> [r |-> r]]
       \/ /\ func = "get_yield"
          /\ \E n \in 1..MaxTwice : \E s \in [1..n -> YieldStepSet] :
             \E date \in Dates : \E history \in YieldHistorySet :
                args = [given |-> RoutingTable(s), prod_table |-> RoutingTable(s),
                        answers |-> [date |-> date, history |-> history]]
    /\ call_pc = "ready"
    /\ outcome = <<>>
    /\ IdleQ
    /\ IdleF
    /\ IdleU
    /\ IdleM

\* the first call
FirstCall ==
    /\ call_pc = "ready"
    /\ outcome' = <<CallOf(func, args.prod_table, args.answers)>>
    /\ args' = [args EXCEPT !.prod_table = TableAfter(func, @)]
    /\ call_pc' = "called once"
    /\ UNCHANGED <<func, varsQ, varsF, varsU, varsM>>

\* the second call, on the object the first call has left
SecondCall ==
    /\ call_pc = "called once"
    /\ outcome' = Append(outcome, CallOf(func, args.prod_table, args.answers))
    /\ args' = [args EXCEPT !.prod_table = TableAfter(func, @)]
    /\ call_pc' = "called twice"
    /\ UNCHANGED <<func, varsQ, varsF, varsU, varsM>>

NextTwice ==
    \/ FirstCall
    \/ SecondCall

SpecTwice == InitTwice /\ [][NextTwice]_vars

Issued == {k \in 1..Len(tasks) : tasks[k].posts >= 1}

NoConfirmation == "No Completion Confirmation"

\* the date the k-th record of an answer carries
FiledOn(k) == "11/0" \o ToString(k) \o "/26"

\* lines 162-167: the for loop of get_cc_date from record i on
RECURSIVE CcScan(_, _, _, _, _)
CcScan(cc_table, i, work_slip, found, date) ==
    IF i > Len(cc_table) THEN [found |-> found, date |-> date]
    ELSE IF cc_table[i].twonum = work_slip
    THEN CcScan(cc_table, i + 1, work_slip, TRUE, cc_table[i].tdate)
    ELSE IF found
    THEN [found |-> found, date |-> date]                    \* break
    ELSE CcScan(cc_table, i + 1, work_slip, found, date)

\* lines 138-171; response is what the Infosystem answers
get_cc_date(database_id, work_slip, response) ==
    IF response.raises THEN [raised |-> "requests", returned |-> ""]
    ELSE
        LET scan == CcScan(response.table, 1, work_slip, FALSE, NotBound)
        IN  [raised |-> "none",
             returned |-> IF scan.found THEN scan.date ELSE NoConfirmation]

\* lines 174-191; confirmation is what the database answers for database_id
check_mrb_qty(database_id, confirmation) ==
    IF confirmation.raises THEN [raised |-> "requests", returned |-> <<>>]
    ELSE IF confirmation.ymrbqty > 0
    THEN [raised |-> "none", returned |-> <<TRUE, confirmation.stand>>]
    ELSE [raised |-> "none", returned |-> <<FALSE, "N/A">>]

\* lines 210-215: the for loop of get_mrb_date at index i (a Python index);
\* fetched lists the confirmations check_mrb_qty has been called for
RECURSIVE MrbScan(_, _, _)
MrbScan(cc_metalist, i, fetched) ==
    IF i < 0 THEN [raised |-> "none", returned |-> NoConfirmation, fetched |-> fetched]
    ELSE
        LET database_id == i + 1
            mrb_tuple == check_mrb_qty(database_id, cc_metalist[i + 1])
        IN  IF mrb_tuple.raised # "none"
            THEN [raised |-> mrb_tuple.raised, returned |-> "",
                  fetched |-> Append(fetched, database_id)]
            ELSE IF mrb_tuple.returned[1]
            THEN [raised |-> "none", returned |-> mrb_tuple.returned[2],
                  fetched |-> Append(fetched, database_id)]
            ELSE MrbScan(cc_metalist, i - 1, Append(fetched, database_id))

\* get_mrb_date with a seeded fault: the list is scanned from the oldest confirmation
get_mrb_date_OldestFirst(work_slip, response) ==
    LET n == Len(response.list)
        reversed == [k \in 1..n |-> response.list[n + 1 - k]]
        scan == MrbScan(reversed, n - 1, <<>>)
    IN  IF response.raises THEN [raised |-> "requests", returned |-> "", fetched |-> <<>>]
        ELSE [scan EXCEPT !.fetched = [k \in 1..Len(@) |-> n + 1 - @[k]]]

\* lines 194-215; response is the list the database answers and, for each
\* confirmation of it, what the database answers to check_mrb_qty
get_mrb_date(work_slip, response) ==
    IF response.raises THEN [raised |-> "requests", returned |-> "", fetched |-> <<>>]
    ELSE MrbScan(response.list, Len(response.list) - 1, <<>>)

\* the records of the completion confirmations table
CcRecordSet == [twonum : {WorkSlip(1), WorkSlip(2)}]
CcTable(c) == [k \in 1..Len(c) |-> [twonum |-> c[k].twonum, tdate |-> FiledOn(k)]]
CcResponseSet ==
    {[raises |-> TRUE, table |-> <<>>]} \cup
    UNION {{[raises |-> FALSE, table |-> CcTable(c)] : c \in [1..n -> CcRecordSet]} :
              n \in 0..(MaxRecords + 1)}

\* the filed confirmations of a work slip
MrbRecordSet == [ymrbqty : 0..MaxLoss, raises : BOOLEAN]
MrbList(c) ==
    [k \in 1..Len(c) |->
        [ymrbqty |-> c[k].ymrbqty, raises |-> c[k].raises, stand |-> FiledOn(k)]]
MrbResponseSet ==
    {[raises |-> TRUE, list |-> <<>>]} \cup
    UNION {{[raises |-> FALSE, list |-> MrbList(c)] : c \in [1..n -> MrbRecordSet]} :
              n \in 0..MaxRecords}

InitLookup ==
    /\ \/ /\ func = "get_cc_date"
          /\ \E work_slip \in {WorkSlip(1), WorkSlip(2)} :
                args = [database_id |-> "7001", work_slip |-> work_slip]
       \/ /\ func = "get_mrb_date"
          /\ \E work_slip \in {WorkSlip(1), WorkSlip(2)} : args = [work_slip |-> work_slip]
    /\ call_pc = "ready"
    /\ outcome = <<>>
    /\ IdleQ
    /\ IdleF
    /\ IdleU
    /\ IdleM

\* lines 138-171
CallGetCcDate ==
    /\ func = "get_cc_date"
    /\ call_pc = "ready"
    /\ \E response \in CcResponseSet :
          outcome' = [call |-> get_cc_date(args.database_id, args.work_slip, response),
                      answered |-> response]
    /\ call_pc' = "done"
    /\ UNCHANGED <<func, args, varsQ, varsF, varsU, varsM>>

\* lines 194-215
CallGetMrbDate ==
    /\ func = "get_mrb_date"
    /\ call_pc = "ready"
    /\ \E response \in MrbResponseSet :
          outcome' = [call |-> get_mrb_date(args.work_slip, response),
                      answered |-> response]
    /\ call_pc' = "done"
    /\ UNCHANGED <<func, args, varsQ, varsF, varsU, varsM>>

NextLookup ==
    \/ CallGetCcDate
    \/ CallGetMrbDate

SpecLookup == InitLookup /\ [][NextLookup]_vars

(***************************************************************************)
(* Statements about get_mrb_date and get_cc_date.                          *)
(***************************************************************************)
MrbDateReturned ==
    /\ func = "get_mrb_date"
    /\ call_pc = "done"
    /\ outcome.call.raised = "none"

\* the confirmations of the answered list with MRB quantity
MrbHits == {k \in 1..Len(outcome.answered.list) : outcome.answered.list[k].ymrbqty > 0}

\* the confirmations n, n - 1, ..., k in this order
DownTo(n, k) == [j \in 1..(n - k + 1) |-> n + 1 - j]

\* C23: get_mrb_date fetches the work slip's filed confirmations from the
\* newest to the oldest and returns the date of the first one with MRB
\* quantity > 0 without fetching an older one; with no such confirmation
\* (or an empty history) it fetches all and returns "No Completion
\* Confirmation".
C23_MrbDateOfNewestMrbConfirmation ==
    MrbDateReturned =>
        LET n == Len(outcome.answered.list)
        IN  IF MrbHits = {}
            THEN /\ outcome.call.returned = NoConfirmation
                 /\ outcome.call.fetched = DownTo(n, 1)
            ELSE /\ outcome.call.returned = outcome.answered.list[Max(MrbHits)].stand
                 /\ outcome.call.fetched = DownTo(n, Max(MrbHits))

\* a history whose newest confirmation has no MRB quantity, an older one has,
\* and a still older one has too and is not fetched
C23_Witness ==
    /\ MrbDateReturned
    /\ Len(outcome.answered.list) = MaxRecords
    /\ Cardinality(MrbHits) >= 2
    /\ Max(MrbHits) < MaxRecords
    /\ outcome.call.returned = FiledOn(Max(MrbHits))

CcDateReturned ==
    /\ func = "get_cc_date"
    /\ call_pc = "done"
    /\ outcome.call.raised = "none"

\* the records of the answered table that carry the requested work slip
CcMatches ==
    {k \in 1..Len(outcome.answered.table) :
        outcome.answered.table[k].twonum = args.work_slip}

\* C24: get_cc_date returns the date of the last record of the table whose
\* work slip is the requested one, wherever the matching records stand in
\* the table, and "No Completion Confirmation" iff no record matches.
C24_CcDateOfLastMatchingRecord ==
    CcDateReturned =>
        /\ outcome.call.returned = NoConfirmation <=> CcMatches = {}
        /\ CcMatches # {} =>
              outcome.call.returned = outcome.answered.table[Max(CcMatches)].tdate

(***************************************************************************)
(* Statements about in_quality's verdict on whole tables.                  *)
(***************************************************************************)
\* C25: when no confirmation lookup fails, in_quality returns a verdict for
\* every table, wherever its Inspection steps stand: also for a table whose
\* step 1 is an Inspection or Final Inspection step with completed = 0 that
\* is followed by further steps.
C25_VerdictForEveryTable ==
    (pc = "done" /\ ~LookupRaised("get_cc_date") /\ ~LookupRaised("get_mrb_date"))
        => result.raised = "none"

(***************************************************************************)
(* Specification: in_quality is called once on a longer table of one       *)
(* product family, with production, first off and inspection steps and no  *)
(* MRB quantity.                                                           *)
(***************************************************************************)
MaxLongSteps == 4     \* routing steps of a longer table

LongStepSet ==
    [artbez : {"Drilling", "1st Off", "Inspection"}, art : {"DP-100"},
     ycomplete : 0..MaxQty, mrbqty : {0}, rverlust : 0..MaxLoss]

InitLong ==
    /\ \E n \in 1..MaxLongSteps : \E s \in [1..n -> LongStepSet] : prod_table = Table(s)
    /\ pc = "ready"
    /\ result = NoResult
    /\ IdleF
    /\ IdleU
    /\ IdleC
    /\ IdleM

SpecLong == InitLong /\ [][Next]_vars

\* C26: in_quality returns TENTATIVE only if a non-skipped step after the
\* inspection step at which quality was found has a larger completed
\* quantity than that inspection step; a flag raised by the forward scan of
\* an earlier inspection step that was not in quality does not count.
C26_TentativeOnlyFromFoundStep ==
    (Returned /\ result.returned[1] = 1) =>
        /\ FoundAt # 0
        /\ \E j \in (FoundAt + 1)..(n_rows - 1) :
              /\ ~SkippedStep(j)
              /\ prod_table[j].ycomplete > prod_table[FoundAt].ycomplete

(***************************************************************************)
(* Statements about the reads of the next process.                         *)
(***************************************************************************)
\* the descriptions of the routing steps of table t
DescriptionsOf(t) == {t[j].artbez : j \in 1..(len(t) - 1)}

\* C27: the next-process resolution stays within the table: get_yield on a
\* match and get_next_process on a step of the process never raise
\* IndexError and report "None" or the description of a step of the table,
\* also when the step after the matched one is "1st Off" and is the last.
C27_NextProcessReadsWithinTable ==
    /\ YieldCalled =>
          /\ outcome.call.raised # "IndexError"
          /\ YieldMatched =>
                outcome.call.returned[5] \in {"None"} \cup DescriptionsOf(args.prod_table)
    /\ NextProcessCalled =>
          /\ outcome.call.raised # "IndexError"
          /\ (outcome.call.raised = "none" /\ StepsOfProcess # {}) =>
                outcome.call.returned \in {"None"} \cup DescriptionsOf(outcome.answered.table)

(***************************************************************************)
(* Statements about the purchase orders of the processing report.          *)
(***************************************************************************)
\* the quantity of the rows i.. of the handed list that have the purchase
\* order, the process and the receipt location of the report row record
RECURSIVE OwnQty(_, _, _)
OwnQty(record, rows, i) ==
    IF i > Len(rows) THEN 0
    ELSE (IF /\ rows[i][1] = record[2]
             /\ rows[i][4] = record[5]
             /\ rows[i][6] = record[7]
          THEN QtyValue(rows[i][7]) ELSE 0)
         + OwnQty(record, rows, i + 1)

\* C28: every row of the processing report sums only raw rows of the
\* purchase order named in its PO column: its quantity is the quantity of
\* the raw rows with its purchase order, process and receipt location, and
\* every raw row finds its own purchase order, process and receipt location
\* in a row of the report, so that rows of different purchase orders are
\* never merged.
C28_MergedRowsOfOnePurchaseOrder ==
    (ReportReturned /\ func = "get_processing_data") =>
        LET handed == outcome.call.handed
        IN  /\ \A k \in 1..Len(ReportRows) :
                  QtyValue(ReportRows[k][8]) = OwnQty(ReportRows[k], handed, 1)
            /\ \A i \in 1..Len(handed) : \E k \in 1..Len(ReportRows) :
                  /\ ReportRows[k][2] = handed[i][1]
                  /\ ReportRows[k][5] = handed[i][4]
                  /\ ReportRows[k][7] = handed[i][6]

(***************************************************************************)
(* The main loop of the work order updater.  The clock is read in whole    *)
(* hours of a day; a statement that takes time moves it on.                *)
(***************************************************************************)
MaxDays == 2        \* the clock runs through the days 0..MaxDays
MaxRun == 1         \* hours a run of update_data or send_email takes before its sleep
MaxDelay == 1       \* hours one sleep of the loop (RUN_DELAY, 30 seconds) takes
MaxAttempts == 4    \* calls that one run of a main loop starts

\* wo_updater.py line 599, yield_notifier.py line 104: time.sleep(21600), in hours
SleepAfterRun == 6

\* the clock h hours after t
Later(t, h) == [day |-> t.day + ((t.hour + h) \div 24), hour |-> (t.hour + h) % 24]

InitMain ==
    /\ now \in [day : {0}, hour : 0..23]
    /\ main_pc = "check"
    /\ error = FALSE
    /\ run_once = FALSE
    /\ file_date = 0
    /\ started = <<>>
    /\ IdleQ
    /\ IdleF
    /\ IdleU
    /\ IdleC

\* lines 607-611: curr_time is read and update_data is started, or not
CheckTime ==
    /\ main_pc = "check"
    /\ LET curr_time == now
       IN  IF (curr_time.hour >= 4 /\ curr_time.hour < 5) \/ error
           THEN /\ Len(started) < MaxAttempts
                /\ started' = Append(started, [at |-> curr_time, error |-> error,
                                               ended |-> "running"])
                /\ main_pc' = "update"
           ELSE /\ main_pc' = "wait"
                /\ UNCHANGED started
    /\ UNCHANGED <<now, error, run_once, file_date, varsQ, varsF, varsU, varsC>>

\* UpdateReturns with a seeded fault: update_data returns without its sleep
UpdateReturns_NoSleep ==
    /\ main_pc = "update"
    /\ \E d \in 0..MaxRun :
          /\ Later(now, d).day <= MaxDays
          /\ now' = Later(now, d)
    /\ started' = [started EXCEPT ![Len(started)].ended = "returned"]
    /\ error' = FALSE
    /\ main_pc' = "wait"
    /\ UNCHANGED <<run_once, file_date, varsQ, varsF, varsU, varsC>>

\* lines 612-613 with lines 598-599: update_data runs, sleeps six hours and
\* returns; the flag is cleared
UpdateReturns ==
    /\ main_pc = "update"
    /\ \E d \in 0..MaxRun :
          /\ Later(now, d + SleepAfterRun).day <= MaxDays
          /\ now' = Later(now, d + SleepAfterRun)
    /\ started' = [started EXCEPT ![Len(started)].ended = "returned"]
    /\ error' = FALSE
    /\ main_pc' = "wait"
    /\ UNCHANGED <<run_once, file_date, varsQ, varsF, varsU, varsC>>

\* lines 612 and 614-617: update_data raises; the flag is set and continue
\* takes the loop to its next iteration
UpdateRaises ==
    /\ main_pc = "update"
    /\ \E d \in 0..MaxRun :
          /\ Later(now, d).day <= MaxDays
          /\ now' = Later(now, d)
    /\ started' = [started EXCEPT ![Len(started)].ended = "raised"]
    /\ error' = TRUE
    /\ main_pc' = "check"
    /\ UNCHANGED <<run_once, file_date, varsQ, varsF, varsU, varsC>>

\* lines 618-620: time.sleep(constants.RUN_DELAY)
Wait ==
    /\ main_pc = "wait"
    /\ \E d \in 0..MaxDelay :
          /\ Later(now, d).day <= MaxDays
          /\ now' = Later(now, d)
    /\ main_pc' = "check"
    /\ UNCHANGED <<error, run_once, file_date, started, varsQ, varsF, varsU, varsC>>

NextMain ==
    \/ CheckTime
    \/ UpdateReturns
    \/ UpdateRaises
    \/ Wait

SpecMain == InitMain /\ [][NextMain]_vars

(***************************************************************************)
(* Statements about the main loop of the work order updater.               *)
(***************************************************************************)
\* the hours from clock a to clock b
HoursBetween(a, b) == (b.day - a.day) * 24 + (b.hour - a.hour)

\* C29: update_data is started only when the hour read is 4 or the previous
\* attempt raised; a failed attempt sets the error flag and takes the loop
\* straight to its next iteration, which starts update_data again, with no
\* RUN_DELAY sleep in between; only an attempt that returns clears the
\* flag; after an attempt that returned no update starts within six hours,
\* so none in the same 4-5 AM window.
C29_UpdateAtFourOrAfterError ==
    /\ [](\A k \in 1..Len(started) :
            /\ started[k].at.hour = 4 \/ started[k].error
            /\ started[k].error <=> (k > 1 /\ started[k - 1].ended = "raised")
            /\ (k > 1 /\ started[k - 1].ended = "returned") =>
                  /\ HoursBetween(started[k - 1].at, started[k].at) >= SleepAfterRun
                  /\ ~(started[k - 1].at.day = started[k].at.day
                       /\ started[k - 1].at.hour = 4 /\ started[k].at.hour = 4))
    /\ [][/\ (main_pc = "update" /\ main_pc' = "check") => error'
          /\ (main_pc = "update" /\ main_pc' = "wait") => ~error'
          /\ (main_pc = "check" /\ error) => (main_pc' = "update" /\ now' = now /\ error')
          /\ (error /\ ~error') => (main_pc = "update" /\ main_pc' = "wait")
          /\ (~error /\ error') => (main_pc = "update" /\ main_pc' = "check")]_vars

\* an update started at 4 that raised, was started again at once and
\* raised again, then returned, and the loop is back at its test
C29_Witness ==
    /\ Len(started) >= 3
    /\ started[1].at.hour = 4
    /\ started[1].ended = "raised"
    /\ started[2].ended = "raised"
    /\ started[3].ended = "returned"
    /\ main_pc = "check"
    /\ ~error

(***************************************************************************)
(* The main loop of the yield notifier (src/yield_notifier.py).  started   *)
(* lists, in order, the settings of run_once ("flag") and the calls of     *)
(* send_email ("send").  The file at DATA_PATH is written by the work      *)
(* order updater, at any time.                                             *)
(***************************************************************************)
\* the calls of send_email in started
Sends == {k \in 1..Len(started) : started[k].what = "send"}

InitNotify ==
    /\ now \in [day : {0}, hour : 0..23]
    /\ main_pc = "check"
    /\ run_once = FALSE
    /\ file_date \in {-1, 0}
    /\ started = <<>>
    /\ error = FALSE
    /\ IdleQ
    /\ IdleF
    /\ IdleU
    /\ IdleC

\* lines 112-121: one reading of the clock and of the file's date; run_once
\* is set at hour 6, send_email is called from hour 7 on with the flag set
\* and a file of today
CheckFlag ==
    /\ main_pc = "check"
    /\ LET flag == IF now.hour = 6 THEN TRUE ELSE run_once
           curr_date == now.day
           flagged == IF flag /\ ~run_once
                      THEN Append(started, [what |-> "flag", at |-> now])
                      ELSE started
       IN  /\ run_once' = flag
           /\ IF now.hour >= 7 /\ flag /\ file_date = curr_date
              THEN /\ Cardinality(Sends) < MaxAttempts
                   /\ started' = Append(flagged, [what |-> "send", at |-> now])
                   /\ main_pc' = "send"
              ELSE /\ started' = flagged
                   /\ main_pc' = "sleep"
    /\ UNCHANGED <<now, error, file_date, varsQ, varsF, varsU, varsC>>

\* SendReturns with a seeded fault: run_once is left set after the send
SendReturns_KeepsFlag ==
    /\ main_pc = "send"
    /\ \E d \in 0..MaxRun :
          /\ Later(now, d + SleepAfterRun).day <= MaxDays
          /\ now' = Later(now, d + SleepAfterRun)
    /\ main_pc' = "sleep"
    /\ UNCHANGED <<run_once, error, file_date, started, varsQ, varsF, varsU, varsC>>

\* lines 121-122 with lines 42-104: send_email sends, sleeps six hours and
\* returns; the flag is cleared
SendReturns ==
    /\ main_pc = "send"
    /\ \E d \in 0..MaxRun :
          /\ Later(now, d + SleepAfterRun).day <= MaxDays
          /\ now' = Later(now, d + SleepAfterRun)
    /\ run_once' = FALSE
    /\ main_pc' = "sleep"
    /\ UNCHANGED <<error, file_date, started, varsQ, varsF, varsU, varsC>>

\* lines 74-102: reading the file or the SMTP session raises; nothing in
\* main catches the exception and the program ends
SendRaises ==
    /\ main_pc = "send"
    /\ main_pc' = "ended"
    /\ UNCHANGED <<now, run_once, error, file_date, started, varsQ, varsF, varsU, varsC>>

\* lines 124-126: time.sleep(30)
Sleep ==
    /\ main_pc = "sleep"
    /\ \E d \in 0..MaxDelay :
          /\ Later(now, d).day <= MaxDays
          /\ now' = Later(now, d)
    /\ main_pc' = "check"
    /\ UNCHANGED <<run_once, error, file_date, started, varsQ, varsF, varsU, varsC>>

\* wo_updater.py line 540: the updater writes the yield data file
WriteYieldFile ==
    /\ main_pc \in {"check", "sleep", "send"}
    /\ file_date # now.day
    /\ file_date' = now.day
    /\ UNCHANGED <<now, main_pc, run_once, error, started, varsQ, varsF, varsU, varsC>>

NextNotify ==
    \/ CheckFlag
    \/ SendReturns
    \/ SendRaises
    \/ Sleep
    \/ WriteYieldFile

SpecNotify == InitNotify /\ [][NextNotify]_vars

(***************************************************************************)
(* Statements about the main loop of the yield notifier.                   *)
(***************************************************************************)
\* the settings of the flag before entry k of started with no send in between
FlagsBefore(k) ==
    {j \in 1..(k - 1) :
        /\ started[j].what = "flag"
        /\ \A m \in (j + 1)..(k - 1) : started[m].what # "send"}

====
